---- MODULE Spec2Model ----
(***************************************************************************)
(* A model of logpilot's pipeline: the source resolver and the line        *)
(* reader (logpilot/input_manager.py), the entry parser                    *)
(* (logpilot/log_parser.py), the token-bounded chunker                     *)
(* (logpilot/chunker.py), the prompt formatter (logpilot/prompt_engine.py),*)
(* the response aggregator, the analyze command (logpilot/cli.py) and the   *)
(* analysis client (logpilot/llm_client.py).                               *)
(*                                                                         *)
(* Python strings are sequences of one-character strings.  Python objects  *)
(* (the values json.loads can return, and the fields of a LogEntry) are    *)
(* records of one shape, [t, s, n, items], tagged by the Python type t.    *)
(* An Optional[LogEntry] is a sequence of length 0 (None) or 1.            *)
(***************************************************************************)
EXTENDS Integers, Sequences, FiniteSets, TLC

VARIABLES
    pc,          \* position of the running function
    lines,       \* parse_logs: the input lines
    fmt,         \* parse_logs / parse_log_line: the format argument
    line_no,     \* parse_logs: number of lines taken from the iterator
    line,        \* parse_log_line: the line argument of the running call
    branch,      \* parse_log_line: the branch of the function that returned
    entry,       \* parse_logs: the value parse_log_line returned
    entries,     \* list(parse_logs(...)), the argument of chunk_logs
    max_tokens,  \* chunk_logs: the ceiling argument
    entry_no,    \* chunk_logs: number of entries taken by the for loop
    chunks,      \* chunk_logs: the closed chunks
    current,     \* chunk_logs: the running chunk
    tokens,      \* chunk_logs: the running cost
    fs,          \* the file system: node path -> [kind, data, mode]
    path,        \* iter_log_files: the path argument
    recursive,   \* iter_log_files: the recursive argument
    include,     \* iter_log_files: the include argument (<<>> for None)
    exclude,     \* iter_log_files: the exclude argument (<<>> for None)
    seen,        \* iter_log_files: the directory entries the loops have taken
    files,       \* iter_log_files: the local list files
    paths,       \* list(iter_log_files(...)), the argument of the reader
    error,       \* the exception raised to the caller, "" for none
    path_no,     \* read_logs_from_paths: number of paths taken by the loop
    opened,      \* read_logs: the open files, each named by its index in paths
    read_no,     \* read_logs: number of lines yielded from the open file
    out_file,    \* analyze: the --out-file option, <<>> for None
    mock,        \* analyze: LOGPILOT_MOCK_LLM is "1"
    prompts,     \* analyze: the prompts, one per chunk
    responses,   \* analyze: the responses received so far
    calls,       \* analyze: the prompts passed to llm.analyze so far
    summary,     \* analyze: the aggregated report
    stdout,      \* analyze: the texts echoed to standard output
    stderr,      \* analyze: the texts echoed to standard error
    exit_code,   \* analyze: the exit code, -1 while the command runs
    output,      \* analyze: the --output option
    first,       \* what an earlier run on the same inputs left behind
    prompt,      \* LLMClient.analyze: the prompt argument
    client,      \* _analyze_async: state of the CopilotClient
    session,     \* _analyze_async: state of the session
    ops,         \* _analyze_async: the calls made to client and session
    events,      \* _analyze_async: the events on_event has received
    result,      \* _analyze_async: the local result
    done,        \* _analyze_async: the asyncio.Event done is set
    ret          \* LLMClient.analyze: the value returned, <<>> for none yet

vars == <<pc, lines, fmt, line_no, line, branch, entry, entries,
          max_tokens, entry_no, chunks, current, tokens,
          fs, path, recursive, include, exclude, seen, files, paths, error,
          path_no, opened, read_no,
          out_file, mock, prompts, responses, calls, summary, stdout, stderr,
          exit_code, output, first,
          prompt, client, session, ops, events, result, done, ret>>

parse_vars == <<lines, fmt, line_no, line, branch, entry>>
chunk_vars == <<max_tokens, entry_no, chunks, current, tokens>>
file_vars == <<fs, path, recursive, include, exclude, seen, files, paths>>
read_vars == <<path_no, opened, read_no>>
llm_vars == <<mock, responses, calls>>
out_vars == <<stdout, stderr, exit_code>>
cli_vars == <<out_file, prompts, summary, llm_vars, out_vars>>
run_vars == <<output, first>>
sdk_vars == <<prompt, client, session, ops, events, result, done, ret>>
io_vars == <<file_vars, read_vars, error, cli_vars, run_vars, sdk_vars>>

(***************************************************************************)
(* Bounds of the model.                                                    *)
(***************************************************************************)
MaxEntries == 3
MaxTokens == 5
MaxLines == 3
MaxMembers == 2
MaxSpecial == 1
MaxPaths == 3
MaxResponses == 3
MaxEvents == 3

(***************************************************************************)
(* Helpers on sequences.                                                   *)
(***************************************************************************)
Max(a, b) == IF a >= b THEN a ELSE b

SeqsUpTo(S, n) == UNION { [1..k -> S] : k \in 0..n }

Repeat(c, n) == [i \in 1..n |-> c]

RECURSIVE Flatten(_)
Flatten(ss) ==
    IF ss = <<>> THEN <<>> ELSE Head(ss) \o Flatten(Tail(ss))

(***************************************************************************)
(* Python objects.                                                         *)
(***************************************************************************)
PyObj(t, s, n, items) == [t |-> t, s |-> s, n |-> n, items |-> items]
PyNone == PyObj("NoneType", <<>>, 0, <<>>)
PyStr(s) == PyObj("str", s, 0, <<>>)
PyInt(n) == PyObj("int", <<>>, n, <<>>)
PyBool(b) == PyObj("bool", <<>>, IF b THEN 1 ELSE 0, <<>>)
PyList(items) == PyObj("list", <<>>, 0, items)
PyDict(items) == PyObj("dict", <<>>, 0, items)
\* An element of a list (k unused) or an item of a dict (key k).
Item(k, v) == [k |-> k, v |-> v]

LogEntry(timestamp, level, source, message, raw) ==
    [timestamp |-> timestamp, level |-> level, source |-> source,
     message |-> message, raw |-> raw]

(***************************************************************************)
(* Characters and strings.                                                 *)
(***************************************************************************)
\* The whitespace json.decoder skips (WHITESPACE = [ \t\n\r]*).
JsonWs == {" ", "\t", "\n", "\r"}
\* The whitespace str.strip() removes; "\f" stands for the characters
\* strip() removes and the JSON decoder does not accept.
StripWs == JsonWs \cup {"\f"}
\* Control characters, which a strict JSON string may not hold.
Control == {"\t", "\n", "\r", "\f"}
Digits == <<"0", "1", "2", "3", "4", "5", "6", "7", "8", "9">>
DigitSet == {Digits[i] : i \in 1..10}
DigitVal(c) == (CHOOSE i \in 1..10 : Digits[i] = c) - 1

Chars(s) == {s[i] : i \in 1..Len(s)}
MinOf(S) == CHOOSE x \in S : \A y \in S : x <= y
MaxOf(S) == CHOOSE x \in S : \A y \in S : x >= y

\* s[i:i+Len(w)] == w
HasAt(s, i, w) ==
    /\ i + Len(w) - 1 <= Len(s)
    /\ SubSeq(s, i, i + Len(w) - 1) = w

\* str.startswith
StartsWith(s, w) == HasAt(s, 1, w)

\* str.count of a one-character string
Count(s, c) == Cardinality({i \in 1..Len(s) : s[i] = c})

\* str.strip()
Strip(s) ==
    LET keep == {i \in 1..Len(s) : s[i] \notin StripWs}
    IN  IF keep = {} THEN <<>> ELSE SubSeq(s, MinOf(keep), MaxOf(keep))

\* sep.join(parts)
RECURSIVE Join(_, _)
Join(sep, parts) ==
    IF parts = <<>> THEN <<>>
    ELSE IF Len(parts) = 1 THEN parts[1]
    ELSE parts[1] \o sep \o Join(sep, Tail(parts))

\* str(n) of an int
RECURSIVE NatToChars(_)
NatToChars(n) ==
    IF n < 10 THEN <<Digits[n + 1]>>
    ELSE NatToChars(n \div 10) \o <<Digits[(n % 10) + 1]>>

IntToChars(n) == IF n < 0 THEN <<"-">> \o NatToChars(-n) ELSE NatToChars(n)

W_null == <<"n", "u", "l", "l">>
W_true == <<"t", "r", "u", "e">>
W_false == <<"f", "a", "l", "s", "e">>
W_None == <<"N", "o", "n", "e">>
W_True == <<"T", "r", "u", "e">>
W_False == <<"F", "a", "l", "s", "e">>
K_timestamp == <<"t", "i", "m", "e", "s", "t", "a", "m", "p">>
K_level == <<"l", "e", "v", "e", "l">>
K_source == <<"s", "o", "u", "r", "c", "e">>
K_message == <<"m", "e", "s", "s", "a", "g", "e">>

(***************************************************************************)
(* json.loads, on texts that hold no backslash (string escapes), no        *)
(* fraction or exponent and no NaN or Infinity literal: the lines of       *)
(* LinePool hold none.  Positions are 1-based; a result is [ok, val, end]  *)
(* with end the position after the value.                                  *)
(***************************************************************************)
JFail == [ok |-> FALSE, val |-> PyNone, end |-> 0]
JOk(v, e) == [ok |-> TRUE, val |-> v, end |-> e]

\* WHITESPACE.match(s, i).end()
SkipWs(s, i) ==
    MinOf({j \in i..(Len(s) + 1) : j = Len(s) + 1 \/ s[j] \notin JsonWs})

\* dict(pairs): a later pair of the same key replaces the value in place.
DictSet(items, k, v) ==
    IF \E i \in 1..Len(items) : items[i].k = k
    THEN [i \in 1..Len(items) |->
             IF items[i].k = k THEN Item(k, v) ELSE items[i]]
    ELSE Append(items, Item(k, v))

\* dict.get(key, default)
DictGet(d, k, default) ==
    IF \E i \in 1..Len(d.items) : d.items[i].k = k
    THEN d.items[CHOOSE i \in 1..Len(d.items) : d.items[i].k = k].v
    ELSE default

\* py_scanstring(s, i), i the position after the opening quote.
scanstring(s, i) ==
    LET close == {j \in i..Len(s) : s[j] = "\""}
    IN  IF close = {} THEN JFail
        ELSE LET j == MinOf(close)
                 body == SubSeq(s, i, j - 1)
             IN  IF Chars(body) \cap (Control \cup {"\\"}) # {} THEN JFail
                 ELSE JOk(PyStr(body), j + 1)

RECURSIVE DigitsToNat(_)
DigitsToNat(ds) ==
    IF ds = <<>> THEN 0
    ELSE 10 * DigitsToNat(SubSeq(ds, 1, Len(ds) - 1)) + DigitVal(ds[Len(ds)])

\* NUMBER_RE = (-?(?:0|[1-9][0-9]*)) at position i, integers only.
match_number(s, i) ==
    LET neg == i <= Len(s) /\ s[i] = "-"
        d == IF neg THEN i + 1 ELSE i
    IN  IF d > Len(s) \/ s[d] \notin DigitSet THEN JFail
        ELSE IF s[d] = "0" THEN JOk(PyInt(0), d + 1)
        ELSE LET e == MinOf({j \in (d + 1)..(Len(s) + 1) :
                               j = Len(s) + 1 \/ s[j] \notin DigitSet})
                 n == DigitsToNat(SubSeq(s, d, e - 1))
             IN  JOk(PyInt(IF neg THEN -n ELSE n), e)

RECURSIVE scan_once(_, _)
RECURSIVE JSONObjectPairs(_, _, _)
RECURSIVE JSONArrayValues(_, _, _)

\* The loop of JSONObject: i is the position of the key's opening quote.
JSONObjectPairs(s, i, pairs) ==
    IF i > Len(s) \/ s[i] # "\"" THEN JFail
    ELSE LET k == scanstring(s, i + 1)
         IN  IF ~k.ok THEN JFail
             ELSE LET c == SkipWs(s, k.end)
                  IN  IF c > Len(s) \/ s[c] # ":" THEN JFail
                      ELSE LET v == scan_once(s, SkipWs(s, c + 1))
                           IN  IF ~v.ok THEN JFail
                               ELSE LET n == SkipWs(s, v.end)
                                        ps == DictSet(pairs, k.val.s, v.val)
                                    IN  IF n > Len(s) THEN JFail
                                        ELSE IF s[n] = "}"
                                             THEN JOk(PyDict(ps), n + 1)
                                        ELSE IF s[n] # "," THEN JFail
                                        ELSE JSONObjectPairs(
                                                 s, SkipWs(s, n + 1), ps)

\* JSONObject(s, i), i the position after the opening brace.
JSONObject(s, i) ==
    LET n == SkipWs(s, i)
    IN  IF n <= Len(s) /\ s[n] = "}" THEN JOk(PyDict(<<>>), n + 1)
        ELSE JSONObjectPairs(s, n, <<>>)

\* The loop of JSONArray: i is the position of the next value.
JSONArrayValues(s, i, values) ==
    LET v == scan_once(s, i)
    IN  IF ~v.ok THEN JFail
        ELSE LET n == SkipWs(s, v.end)
                 vs == Append(values, Item(<<>>, v.val))
             IN  IF n > Len(s) THEN JFail
                 ELSE IF s[n] = "]" THEN JOk(PyList(vs), n + 1)
                 ELSE IF s[n] # "," THEN JFail
                 ELSE JSONArrayValues(s, SkipWs(s, n + 1), vs)

\* JSONArray(s, i), i the position after the opening bracket.
JSONArray(s, i) ==
    LET n == SkipWs(s, i)
    IN  IF n <= Len(s) /\ s[n] = "]" THEN JOk(PyList(<<>>), n + 1)
        ELSE JSONArrayValues(s, n, <<>>)

\* scanner.scan_once(s, i)
scan_once(s, i) ==
    IF i > Len(s) THEN JFail
    ELSE IF s[i] = "\"" THEN scanstring(s, i + 1)
    ELSE IF s[i] = "{" THEN JSONObject(s, i + 1)
    ELSE IF s[i] = "[" THEN JSONArray(s, i + 1)
    ELSE IF HasAt(s, i, W_null) THEN JOk(PyNone, i + 4)
    ELSE IF HasAt(s, i, W_true) THEN JOk(PyBool(TRUE), i + 4)
    ELSE IF HasAt(s, i, W_false) THEN JOk(PyBool(FALSE), i + 5)
    ELSE match_number(s, i)

\* json.loads(s): JSONDecoder.decode; not ok stands for JSONDecodeError.
json_loads(s) ==
    LET r == scan_once(s, SkipWs(s, 1))
    IN  IF ~r.ok THEN JFail
        ELSE IF SkipWs(s, r.end) # Len(s) + 1 THEN JFail
        ELSE r

\* repr(v), which str(v) is for a dict.
RECURSIVE repr(_)
repr(v) ==
    IF v.t = "str"
    THEN LET q == IF "'" \in Chars(v.s) THEN "\"" ELSE "'"
         IN  <<q>> \o v.s \o <<q>>
    ELSE IF v.t = "int" THEN IntToChars(v.n)
    ELSE IF v.t = "bool" THEN (IF v.n = 1 THEN W_True ELSE W_False)
    ELSE IF v.t = "NoneType" THEN W_None
    ELSE IF v.t = "list"
    THEN <<"[">>
         \o Join(<<",", " ">>,
                 [i \in 1..Len(v.items) |-> repr(v.items[i].v)])
         \o <<"]">>
    ELSE <<"{">>
         \o Join(<<",", " ">>,
                 [i \in 1..Len(v.items) |->
                     repr(PyStr(v.items[i].k)) \o <<":", " ">>
                     \o repr(v.items[i].v)])
         \o <<"}">>

(***************************************************************************)
(* log_parser.py                                                           *)
(***************************************************************************)
\* The condition of the JSON branch of parse_log_line.
routes_json(stripped, f) ==
    f = "json" \/ (f = "auto" /\ StartsWith(stripped, <<"{">>))

\* Variant: the default of the message is the line, not str(data).
parse_json_rawdefault(ln) ==
    LET r == json_loads(ln)
    IN  IF r.ok /\ r.val.t = "dict"
        THEN <<LogEntry(DictGet(r.val, K_timestamp, PyNone),
                        DictGet(r.val, K_level, PyNone),
                        DictGet(r.val, K_source, PyNone),
                        DictGet(r.val, K_message, PyStr(ln)),
                        ln)>>
        ELSE <<>>

\* Variant: a failed decode falls through to the text heuristic.
parse_json_fallthrough(ln) ==
    LET r == json_loads(ln)
    IN  IF r.ok /\ r.val.t = "dict"
        THEN <<LogEntry(DictGet(r.val, K_timestamp, PyNone),
                        DictGet(r.val, K_level, PyNone),
                        DictGet(r.val, K_source, PyNone),
                        DictGet(r.val, K_message, PyStr(repr(r.val))),
                        ln)>>
        ELSE IF Count(Strip(ln), ",") >= 2
        THEN <<LogEntry(PyNone, PyNone, PyNone, PyStr(ln), ln)>>
        ELSE <<>>

\* The try block of parse_log_line: any exception gives None.
parse_json(ln) ==
    LET r == json_loads(ln)
    IN  IF r.ok /\ r.val.t = "dict"
        THEN <<LogEntry(DictGet(r.val, K_timestamp, PyNone),
                        DictGet(r.val, K_level, PyNone),
                        DictGet(r.val, K_source, PyNone),
                        DictGet(r.val, K_message, PyStr(repr(r.val))),
                        ln)>>
        ELSE <<>>

\* Variant: one comma is enough.
parse_text_onecomma(ln, stripped) ==
    IF "," \in Chars(stripped)
    THEN <<LogEntry(PyNone, PyNone, PyNone, PyStr(ln), ln)>>
    ELSE <<>>

\* The fallback of parse_log_line: at least 2 commas.
parse_text(ln, stripped) ==
    IF "," \in Chars(stripped) /\ Count(stripped, ",") >= 2
    THEN <<LogEntry(PyNone, PyNone, PyNone, PyStr(ln), ln)>>
    ELSE <<>>

\* The branch parse_log_line returns from.
parse_branch(ln, f) ==
    LET stripped == Strip(ln)
    IN  IF stripped = <<>> THEN "blank"
        ELSE IF routes_json(stripped, f) THEN "json"
        ELSE "text"

parse_log_line(ln, f) ==
    LET stripped == Strip(ln)
        b == parse_branch(ln, f)
    IN  IF b = "blank" THEN <<>>
        ELSE IF b = "json" THEN parse_json(ln)
        ELSE parse_text(ln, stripped)

(***************************************************************************)
(* The inputs: log lines.                                                  *)
(***************************************************************************)
\* "{\"level\":\"ERROR\",\"message\":\"boom\"}"
L_example ==
    <<"{", "\"", "l", "e", "v", "e", "l", "\"", ":", "\"", "E", "R", "R",
    "O", "R", "\"", ",", "\"", "m", "e", "s", "s", "a", "g", "e", "\"", ":",
    "\"", "b", "o", "o", "m", "\"", "}">>
\* "{\"timestamp\":\"ok\",\"level\":\"up\",\"source\":\"db\",\"message\":\"hi\"}"
L_full ==
    <<"{", "\"", "t", "i", "m", "e", "s", "t", "a", "m", "p", "\"", ":",
    "\"", "o", "k", "\"", ",", "\"", "l", "e", "v", "e", "l", "\"", ":",
    "\"", "u", "p", "\"", ",", "\"", "s", "o", "u", "r", "c", "e", "\"",
    ":", "\"", "d", "b", "\"", ",", "\"", "m", "e", "s", "s", "a", "g", "e",
    "\"", ":", "\"", "h", "i", "\"", "}">>
\* "  \t{\"message\":\"ok\"}"
L_lead_ws ==
    <<" ", " ", "\t", "{", "\"", "m", "e", "s", "s", "a", "g", "e", "\"",
    ":", "\"", "o", "k", "\"", "}">>
\* "{\"message\":\"ok\"}  \t "
L_trail_ws ==
    <<"{", "\"", "m", "e", "s", "s", "a", "g", "e", "\"", ":", "\"", "o",
    "k", "\"", "}", " ", " ", "\t", " ">>
\* " { \"level\" : \"ok\" , \"x\" : 7 }\t"
L_inner_ws ==
    <<" ", "{", " ", "\"", "l", "e", "v", "e", "l", "\"", " ", ":", " ",
    "\"", "o", "k", "\"", " ", ",", " ", "\"", "x", "\"", " ", ":", " ",
    "7", " ", "}", "\t">>
\* "\f{\"message\":\"ok\"}"
L_formfeed ==
    <<"\f", "{", "\"", "m", "e", "s", "s", "a", "g", "e", "\"", ":", "\"",
    "o", "k", "\"", "}">>
\* "{}"
L_empty_obj ==
    <<"{", "}">>
\* "{\"level\":\"a\",\"x\":7,\"level\":\"b\"}"
L_dup_key ==
    <<"{", "\"", "l", "e", "v", "e", "l", "\"", ":", "\"", "a", "\"", ",",
    "\"", "x", "\"", ":", "7", ",", "\"", "l", "e", "v", "e", "l", "\"",
    ":", "\"", "b", "\"", "}">>
\* "{\"message\":true}"
L_msg_true ==
    <<"{", "\"", "m", "e", "s", "s", "a", "g", "e", "\"", ":", "t", "r",
    "u", "e", "}">>
\* "{\"message\":[1,2]}"
L_msg_list ==
    <<"{", "\"", "m", "e", "s", "s", "a", "g", "e", "\"", ":", "[", "1",
    ",", "2", "]", "}">>
\* "{\"message\":{\"x\":7}}"
L_msg_dict ==
    <<"{", "\"", "m", "e", "s", "s", "a", "g", "e", "\"", ":", "{", "\"",
    "x", "\"", ":", "7", "}", "}">>
\* "{\"message\":-12}"
L_msg_neg ==
    <<"{", "\"", "m", "e", "s", "s", "a", "g", "e", "\"", ":", "-", "1",
    "2", "}">>
\* "{\"message\":\"\"}"
L_msg_empty ==
    <<"{", "\"", "m", "e", "s", "s", "a", "g", "e", "\"", ":", "\"", "\"",
    "}">>
\* "{\"x\":\"it's\",\"y\":[true,false,null,{\"z\":[]}],\"n\":-40}"
L_repr_mix ==
    <<"{", "\"", "x", "\"", ":", "\"", "i", "t", "'", "s", "\"", ",", "\"",
    "y", "\"", ":", "[", "t", "r", "u", "e", ",", "f", "a", "l", "s", "e",
    ",", "n", "u", "l", "l", ",", "{", "\"", "z", "\"", ":", "[", "]", "}",
    "]", ",", "\"", "n", "\"", ":", "-", "4", "0", "}">>
\* "{\"x\":\"a,b,c\"}"
L_str_commas ==
    <<"{", "\"", "x", "\"", ":", "\"", "a", ",", "b", ",", "c", "\"", "}">>
\* "{\"level\":"
L_fragment ==
    <<"{", "\"", "l", "e", "v", "e", "l", "\"", ":">>
\* "{\"level\":\"ok\",\"x\":7,}"
L_trailing_comma ==
    <<"{", "\"", "l", "e", "v", "e", "l", "\"", ":", "\"", "o", "k", "\"",
    ",", "\"", "x", "\"", ":", "7", ",", "}">>
\* "{a,b,c}"
L_bare_words ==
    <<"{", "a", ",", "b", ",", "c", "}">>
\* "{'a':1,'b':2,'c':3}"
L_single_quotes ==
    <<"{", "'", "a", "'", ":", "1", ",", "'", "b", "'", ":", "2", ",", "'",
    "c", "'", ":", "3", "}">>
\* "{\"a\":1 \"b\":2}"
L_no_comma ==
    <<"{", "\"", "a", "\"", ":", "1", " ", "\"", "b", "\"", ":", "2", "}">>
\* "{\"x\":7}}"
L_extra_data ==
    <<"{", "\"", "x", "\"", ":", "7", "}", "}">>
\* "{\"x\":7},{\"x\":8},{\"x\":9}"
L_two_objects ==
    <<"{", "\"", "x", "\"", ":", "7", "}", ",", "{", "\"", "x", "\"", ":",
    "8", "}", ",", "{", "\"", "x", "\"", ":", "9", "}">>
\* "{\"x\":07}"
L_lead_zero ==
    <<"{", "\"", "x", "\"", ":", "0", "7", "}">>
\* "{\"x\":-}"
L_lone_minus ==
    <<"{", "\"", "x", "\"", ":", "-", "}">>
\* "{\"x\":\"a\tb\"}"
L_tab_in_str ==
    <<"{", "\"", "x", "\"", ":", "\"", "a", "\t", "b", "\"", "}">>
\* "{\"x\":\"a,b,c}"
L_unclosed_str ==
    <<"{", "\"", "x", "\"", ":", "\"", "a", ",", "b", ",", "c", "}">>
\* "[1,2,3]"
L_array ==
    <<"[", "1", ",", "2", ",", "3", "]">>
\* "[{\"message\":\"ok\"}]"
L_array_obj ==
    <<"[", "{", "\"", "m", "e", "s", "s", "a", "g", "e", "\"", ":", "\"",
    "o", "k", "\"", "}", "]">>
\* "[1,2,"
L_array_open ==
    <<"[", "1", ",", "2", ",">>
\* "[]"
L_empty_array ==
    <<"[", "]">>
\* "\"a,b,c\""
L_json_str ==
    <<"\"", "a", ",", "b", ",", "c", "\"">>
\* "7"
L_json_int ==
    <<"7">>
\* "null"
L_json_null ==
    <<"n", "u", "l", "l">>
\* "true"
L_json_true ==
    <<"t", "r", "u", "e">>
\* "2024-01-01,INFO,app,started"
L_text_example ==
    <<"2", "0", "2", "4", "-", "0", "1", "-", "0", "1", ",", "I", "N", "F",
    "O", ",", "a", "p", "p", ",", "s", "t", "a", "r", "t", "e", "d">>
\* "onlyonecomma,here"
L_one_comma ==
    <<"o", "n", "l", "y", "o", "n", "e", "c", "o", "m", "m", "a", ",", "h",
    "e", "r", "e">>
\* "a,b,c"
L_two_commas ==
    <<"a", ",", "b", ",", "c">>
\* "a,b,c,d"
L_three_commas ==
    <<"a", ",", "b", ",", "c", ",", "d">>
\* ",,"
L_only_commas ==
    <<",", ",">>
\* "abc"
L_no_commas ==
    <<"a", "b", "c">>
\* " a,b,c \t"
L_text_ws ==
    <<" ", "a", ",", "b", ",", "c", " ", "\t">>
\* "{a,b,c"
L_brace_text ==
    <<"{", "a", ",", "b", ",", "c">>
\* ""
L_empty ==
    <<>>
\* " "
L_space ==
    <<" ">>
\* "\t \f"
L_blank_mix ==
    <<"\t", " ", "\f">>

HandLines ==
    {L_example, L_full, L_lead_ws, L_trail_ws, L_inner_ws, L_formfeed,
    L_empty_obj, L_dup_key, L_msg_true, L_msg_list, L_msg_dict, L_msg_neg,
    L_msg_empty, L_repr_mix, L_str_commas, L_fragment, L_trailing_comma,
    L_bare_words, L_single_quotes, L_no_comma, L_extra_data, L_two_objects,
    L_lead_zero, L_lone_minus, L_tab_in_str, L_unclosed_str, L_array,
    L_array_obj, L_array_open, L_empty_array, L_json_str, L_json_int,
    L_json_null, L_json_true, L_text_example, L_one_comma, L_two_commas,
    L_three_commas, L_only_commas, L_no_commas, L_text_ws, L_brace_text,
    L_empty, L_space, L_blank_mix}

\* JSON text of a string, of an object member and of an object.
JStr(cs) == <<"\"">> \o cs \o <<"\"">>
Member(k, vtext) == JStr(k) \o <<":">> \o vtext
ObjText(members) == <<"{">> \o Join(<<",">>, members) \o <<"}">>

Keys == {K_timestamp, K_level, K_source, K_message, <<"x">>}
ValueTexts == {JStr(<<"o", "k">>), <<"7">>, W_null}
Members == {Member(k, v) : k \in Keys, v \in ValueTexts}

\* The one-line JSON objects of at most MaxMembers members.
ObjectLines == {ObjText(ms) : ms \in SeqsUpTo(Members, MaxMembers)}

\* The lines parse_log_line is applied to.
LinePool == HandLines \cup ObjectLines

\* The lines the inputs of parse_logs are made of.
SeqPool ==
    {L_example, L_inner_ws, L_fragment, L_two_commas, L_one_comma, L_space}

\* The format argument: the three documented values and another string.
Formats == {"auto", "json", "text", "csv"}

\* The raw strings of the entries chunk_logs is applied to.
RawLens == {0, 5, 8, 12}
ChunkRaws == {Repeat(c, n) : c \in {"x", "y"}, n \in RawLens}
ChunkEntryPool == {LogEntry(PyNone, PyNone, PyNone, PyStr(r), r) : r \in ChunkRaws}

(***************************************************************************)
(* chunker.py                                                              *)
(***************************************************************************)
\* Variant: the floor of one token is missing.
estimate_tokens_nofloor(text) == Len(text) \div 4

estimate_tokens(text) == Max(1, Len(text) \div 4)

\* Variant: current is not emptied at a close.
chunk_iter_noreset(st, e, mt) ==
    LET entry_tokens == estimate_tokens(e.raw)
        close == st.tokens + entry_tokens > mt /\ st.current # <<>>
    IN  [chunks |-> IF close THEN Append(st.chunks, st.current) ELSE st.chunks,
         current |-> Append(st.current, e),
         tokens |-> (IF close THEN 0 ELSE st.tokens) + entry_tokens]

\* Variant: the close does not test that current is non-empty.
chunk_iter_noguard(st, e, mt) ==
    LET entry_tokens == estimate_tokens(e.raw)
        close == st.tokens + entry_tokens > mt
    IN  [chunks |-> IF close THEN Append(st.chunks, st.current) ELSE st.chunks,
         current |-> Append(IF close THEN <<>> ELSE st.current, e),
         tokens |-> (IF close THEN 0 ELSE st.tokens) + entry_tokens]

\* Variant: the close tests the running cost without the entry's cost.
chunk_iter_late(st, e, mt) ==
    LET entry_tokens == estimate_tokens(e.raw)
        close == st.tokens > mt /\ st.current # <<>>
    IN  [chunks |-> IF close THEN Append(st.chunks, st.current) ELSE st.chunks,
         current |-> Append(IF close THEN <<>> ELSE st.current, e),
         tokens |-> (IF close THEN 0 ELSE st.tokens) + entry_tokens]

\* Variant: an entry that cannot fit any chunk does not close the running one.
chunk_iter_oversize_joins(st, e, mt) ==
    LET entry_tokens == estimate_tokens(e.raw)
        close == /\ st.tokens + entry_tokens > mt
                 /\ entry_tokens <= mt
                 /\ st.current # <<>>
    IN  [chunks |-> IF close THEN Append(st.chunks, st.current) ELSE st.chunks,
         current |-> Append(IF close THEN <<>> ELSE st.current, e),
         tokens |-> (IF close THEN 0 ELSE st.tokens) + entry_tokens]

\* Variant: the running chunk is closed when the entry brings the cost to
\* the ceiling.
chunk_iter_closes_at_limit(st, e, mt) ==
    LET entry_tokens == estimate_tokens(e.raw)
        close == st.tokens + entry_tokens >= mt /\ st.current # <<>>
    IN  [chunks |-> IF close THEN Append(st.chunks, st.current) ELSE st.chunks,
         current |-> Append(IF close THEN <<>> ELSE st.current, e),
         tokens |-> (IF close THEN 0 ELSE st.tokens) + entry_tokens]

\* One iteration of the for loop of chunk_logs on the locals
\* st = [chunks, current, tokens].
chunk_iter(st, e, mt) ==
    LET entry_tokens == estimate_tokens(e.raw)
        close == st.tokens + entry_tokens > mt /\ st.current # <<>>
    IN  [chunks |-> IF close THEN Append(st.chunks, st.current) ELSE st.chunks,
         current |-> Append(IF close THEN <<>> ELSE st.current, e),
         tokens |-> (IF close THEN 0 ELSE st.tokens) + entry_tokens]

\* for entry in entries: one iteration.
ChunkLogsLoop ==
    /\ pc = "chunk_logs"
    /\ entry_no < Len(entries)
    /\ LET st == chunk_iter([chunks |-> chunks, current |-> current,
                             tokens |-> tokens],
                            entries[entry_no + 1], max_tokens)
       IN  /\ chunks' = st.chunks
           /\ current' = st.current
           /\ tokens' = st.tokens
    /\ entry_no' = entry_no + 1
    /\ UNCHANGED <<pc, entries, max_tokens, parse_vars, io_vars>>

\* The loop is exhausted: if current: chunks.append(current); return chunks.
ChunkLogsReturn ==
    /\ pc = "chunk_logs"
    /\ entry_no = Len(entries)
    /\ chunks' = IF current # <<>> THEN Append(chunks, current) ELSE chunks
    /\ pc' = "chunked"
    /\ UNCHANGED <<entries, max_tokens, entry_no, current, tokens,
                   parse_vars, io_vars>>

(***************************************************************************)
(* log_parser.py: parse_logs and the calls of parse_log_line it makes.     *)
(***************************************************************************)
\* for line in lines: the iterator gives the next line and
\* parse_log_line(line, fmt) is called.
ParseLogsNext ==
    /\ pc = "parse_logs"
    /\ line_no < Len(lines)
    /\ line_no' = line_no + 1
    /\ line' = lines[line_no + 1]
    /\ pc' = "parse_log_line"
    /\ UNCHANGED <<lines, fmt, branch, entry, entries, chunk_vars, io_vars>>

\* if not stripped: return None
ParseLogLineBlank ==
    /\ pc = "parse_log_line"
    /\ parse_branch(line, fmt) = "blank"
    /\ entry' = <<>>
    /\ branch' = "blank"
    /\ pc' = "parse_logs_entry"
    /\ UNCHANGED <<lines, fmt, line_no, line, entries, chunk_vars, io_vars>>

\* The JSON branch: the entry, or None on any exception.
ParseLogLineJson ==
    /\ pc = "parse_log_line"
    /\ parse_branch(line, fmt) = "json"
    /\ entry' = parse_json(line)
    /\ branch' = "json"
    /\ pc' = "parse_logs_entry"
    /\ UNCHANGED <<lines, fmt, line_no, line, entries, chunk_vars, io_vars>>

\* The text fallback.
ParseLogLineText ==
    /\ pc = "parse_log_line"
    /\ parse_branch(line, fmt) = "text"
    /\ entry' = parse_text(line, Strip(line))
    /\ branch' = "text"
    /\ pc' = "parse_logs_entry"
    /\ UNCHANGED <<lines, fmt, line_no, line, entries, chunk_vars, io_vars>>

\* Variant: the entry is put in front of those already yielded.
ParseLogsYield_front ==
    /\ pc = "parse_logs_entry"
    /\ entry # <<>>
    /\ entries' = <<entry[1]>> \o entries
    /\ pc' = "parse_logs"
    /\ UNCHANGED <<parse_vars, chunk_vars, io_vars>>

\* if entry is not None: yield entry (list() appends it).
ParseLogsYield ==
    /\ pc = "parse_logs_entry"
    /\ entry # <<>>
    /\ entries' = Append(entries, entry[1])
    /\ pc' = "parse_logs"
    /\ UNCHANGED <<parse_vars, chunk_vars, io_vars>>

\* entry is None: the line is skipped.
ParseLogsSkip ==
    /\ pc = "parse_logs_entry"
    /\ entry = <<>>
    /\ pc' = "parse_logs"
    /\ UNCHANGED <<parse_vars, entries, chunk_vars, io_vars>>

\* The iterator is exhausted: the generator returns.
ParseLogsDone ==
    /\ pc = "parse_logs"
    /\ line_no = Len(lines)
    /\ pc' = "parsed"
    /\ UNCHANGED <<parse_vars, entries, chunk_vars, io_vars>>

(***************************************************************************)
(* The file system and os.path.  Paths are normalised but for a trailing   *)
(* slash: no "." or ".." component, no doubled slash, no symbolic link.    *)
(* A node is absent, a directory, a regular file or special (a FIFO, a     *)
(* socket, a device: neither a regular file nor a directory).  The mode of *)
(* a node is what the user running the program may do with it: "rw" read  *)
(* and write, "ro" read only, "wo" write only, "denied" neither.           *)
(***************************************************************************)
P_d == <<"d">>  \* d
P_d_slash == <<"d", "/">>  \* d/
P_s == <<"d", "/", "s">>  \* d/s
P_nope == <<"n", "o", "p", "e">>  \* nope
F_a == <<"d", "/", "a", ".", "l", "o", "g">>  \* d/a.log
F_s == <<"d", "/", "s", ".", "l", "o", "g">>  \* d/s.log
F_sa == <<"d", "/", "s", "/", "a", ".", "l", "o", "g">>  \* d/s/a.log
F_sb == <<"d", "/", "s", "/", "b", ".", "t", "x", "t">>  \* d/s/b.txt
G_star == <<"*">>  \* *
G_log == <<"*", ".", "l", "o", "g">>  \* *.log
G_sub == <<"s", "/", "*">>  \* s/*
G_a == <<"a", "*">>  \* a*
G_txt == <<"*", ".", "t", "x", "t">>  \* *.txt
G_q == <<"?", ".", "l", "o", "g">>  \* ?.log
G_adot == <<"a", ".", "*">>  \* a.*
G_b == <<"b", "*">>  \* b*

\* The printable ASCII characters but the backquote, in code point order.
Ascii ==
    <<" ", "!", "\"", "#", "$", "%", "&", "'", "(", ")", "*", "+", ",", "-",
    ".", "/", "0", "1", "2", "3", "4", "5", "6", "7", "8", "9", ":", ";",
    "<", "=", ">", "?", "@", "A", "B", "C", "D", "E", "F", "G", "H", "I",
    "J", "K", "L", "M", "N", "O", "P", "Q", "R", "S", "T", "U", "V", "W",
    "X", "Y", "Z", "[", "\\", "]", "^", "_", "a", "b", "c", "d", "e",
    "f", "g", "h", "i", "j", "k", "l", "m", "n", "o", "p", "q", "r", "s",
    "t", "u", "v", "w", "x", "y", "z", "{", "|", "}", "~">>

\* The rank of a character in that order.
Ord(c) == CHOOSE i \in 1..Len(Ascii) : Ascii[i] = c

\* a < b for Python strings: by code point, a proper prefix first.
RECURSIVE StrLess(_, _)
StrLess(a, b) ==
    IF b = <<>> THEN FALSE
    ELSE IF a = <<>> THEN TRUE
    ELSE IF Head(a) # Head(b) THEN Ord(Head(a)) < Ord(Head(b))
    ELSE StrLess(Tail(a), Tail(b))

Node(kind, data, mode) == [kind |-> kind, data |-> data, mode |-> mode]
Absent == Node("absent", <<>>, "rw")

EndsSlash(p) == p # <<>> /\ p[Len(p)] = "/"
\* The path without its trailing slash.
normpath(p) == IF Len(p) > 1 /\ EndsSlash(p) THEN SubSeq(p, 1, Len(p) - 1) ELSE p

Slashes(p) == {i \in 1..Len(p) : p[i] = "/"}
\* os.path.basename, os.path.dirname
basename(p) ==
    IF Slashes(p) = {} THEN p ELSE SubSeq(p, MaxOf(Slashes(p)) + 1, Len(p))
dirname(p) ==
    IF Slashes(p) = {} THEN <<>> ELSE SubSeq(p, 1, MaxOf(Slashes(p)) - 1)

\* os.path.join(a, b) for a non-empty a and a relative b
path_join(a, b) == IF EndsSlash(a) THEN a \o b ELSE a \o <<"/">> \o b

\* os.path.relpath(p, start) for p below start
relpath(p, start) == SubSeq(p, Len(normpath(start)) + 2, Len(p))

\* os.stat: a path with a trailing slash resolves to a directory only
\* (ENOTDIR on anything else).
Stat(f, p) ==
    LET node == IF normpath(p) \in DOMAIN f THEN f[normpath(p)] ELSE Absent
    IN  IF Len(p) > 1 /\ EndsSlash(p) /\ node.kind # "dir" THEN Absent
        ELSE node
\* The user may open the node for reading (for a directory: may list it),
\* for writing (for a directory: may create an entry in it).  Every
\* directory may be searched, so that its entries can be looked up by name
\* whatever its mode.
readable(node) == node.mode \in {"rw", "ro"}
writable(node) == node.mode \in {"rw", "wo"}

\* os.path.isfile, os.path.isdir
isfile(f, p) == Stat(f, p).kind = "file"
isdir(f, p) == Stat(f, p).kind = "dir"

\* The error os.listdir(p) and os.scandir(p) raise, "" when they return:
\* p has to be a directory, and one the user may read.
listdir_error(f, p) ==
    LET q == normpath(p)
        notdir == {i \in (Slashes(q) \ {1}) \cup {Len(q) + 1} :
                      ~isdir(f, SubSeq(q, 1, i - 1))}
    IN  IF notdir # {}
        THEN IF Stat(f, SubSeq(q, 1, MinOf(notdir) - 1)) = Absent
             THEN "FileNotFoundError"
             ELSE "NotADirectoryError"
        ELSE IF ~readable(Stat(f, q)) THEN "PermissionError"
        ELSE ""

\* Variant: the names of everything below p, not of its children only.
listdir_deep(f, p) ==
    [error |-> listdir_error(f, p),
     names |-> IF listdir_error(f, p) # "" THEN {}
               ELSE {basename(n) : n \in {m \in DOMAIN f :
                        /\ f[m].kind # "absent"
                        /\ Len(m) > Len(normpath(p)) + 1
                        /\ SubSeq(m, 1, Len(normpath(p)) + 1)
                               = normpath(p) \o <<"/">>}}]

\* os.listdir(p): the error it raises, or else the names of the entries of
\* directory p, of any kind.
listdir(f, p) ==
    [error |-> listdir_error(f, p),
     names |-> IF listdir_error(f, p) # "" THEN {}
               ELSE {basename(n) : n \in {m \in DOMAIN f :
                        f[m].kind # "absent" /\ dirname(m) = normpath(p)}}]

RECURSIVE walk_dirs(_, _)
\* The roots os.walk(top) yields: top as given and every directory below.
\* The error of listing a directory is passed over (onerror is None): that
\* directory is no root and nothing below it is.
walk_dirs(f, top) ==
    IF listdir(f, top).error # "" THEN {}
    ELSE {top} \cup UNION {walk_dirs(f, path_join(top, n)) :
                             n \in {m \in listdir(f, top).names :
                                       isdir(f, path_join(top, m))}}

\* The pairs (root, name) the two loops over os.walk(top) take: name is an
\* entry of root that is no directory.
walk_filenames(f, top) ==
    UNION {{<<r, n>> : n \in {m \in listdir(f, r).names :
                                 ~isdir(f, path_join(r, m))}} :
              r \in walk_dirs(f, top)}

\* root1 is a directory above root2.
Above(root1, root2) ==
    /\ Len(normpath(root1)) < Len(normpath(root2))
    /\ SubSeq(normpath(root2), 1, Len(normpath(root1)) + 1)
           = normpath(root1) \o <<"/">>

(***************************************************************************)
(* fnmatch.fnmatch on POSIX, for patterns of literal characters, * and ?   *)
(* (no bracket expression).                                                *)
(***************************************************************************)
RECURSIVE fnmatch(_, _)
fnmatch(name, pat) ==
    IF pat = <<>> THEN name = <<>>
    ELSE IF Head(pat) = "*"
    THEN fnmatch(name, Tail(pat))
         \/ (name # <<>> /\ fnmatch(Tail(name), pat))
    ELSE /\ name # <<>>
         /\ (Head(pat) = "?" \/ Head(pat) = Head(name))
         /\ fnmatch(Tail(name), Tail(pat))

(***************************************************************************)
(* input_manager.py: iter_log_files                                        *)
(***************************************************************************)
\* include = include or ["*"]
include_or_all(inc) == IF inc = <<>> THEN <<G_star>> ELSE inc

\* The nested function matches(patterns, rel_path, name).
matches(patterns, rel_path, name) ==
    \E i \in 1..Len(patterns) :
        fnmatch(rel_path, patterns[i]) \/ fnmatch(name, patterns[i])

\* Variant: a match of include is enough.
selected_include_wins(inc, exc, rel_path, name) ==
    \/ matches(include_or_all(inc), rel_path, name)
    \/ ~matches(exc, rel_path, name)

\* The test of the three if statements that select a candidate:
\* matches(include, ...) and not matches(exclude, ...).
selected(inc, exc, rel_path, name) ==
    /\ matches(include_or_all(inc), rel_path, name)
    /\ ~matches(exc, rel_path, name)

\* Variant: the list is left in the order of enumeration.
sort_paths_unsorted(fl) == fl

RECURSIVE sort_paths(_)
\* files.sort(): ascending by code point; the paths of fl are distinct.
sort_paths(fl) ==
    IF fl = <<>> THEN <<>>
    ELSE LET least == CHOOSE i \in 1..Len(fl) :
                          \A j \in 1..Len(fl) : ~StrLess(fl[j], fl[i])
         IN  <<fl[least]>>
             \o sort_paths([k \in 1..(Len(fl) - 1) |->
                               IF k < least THEN fl[k] ELSE fl[k + 1]])

\* if os.path.isfile(path): the path itself is the one candidate.
IterSingleFile ==
    /\ pc = "iter_log_files"
    /\ isfile(fs, path)
    /\ paths' = IF selected(include, exclude, basename(path), basename(path))
                THEN <<path>> ELSE <<>>
    /\ pc' = "resolved"
    /\ UNCHANGED <<fs, path, recursive, include, exclude, seen, files, error,
                   read_vars, parse_vars, entries, chunk_vars, cli_vars,
                   run_vars, sdk_vars>>

\* if not os.path.isdir(path): raise FileNotFoundError
IterNotFound ==
    /\ pc = "iter_log_files"
    /\ ~isfile(fs, path)
    /\ ~isdir(fs, path)
    /\ error' = "FileNotFoundError"
    /\ pc' = "raised"
    /\ UNCHANGED <<file_vars, read_vars, parse_vars, entries, chunk_vars,
                   cli_vars, run_vars, sdk_vars>>

\* One iteration of the loops over os.walk(path).  The walk is top-down: a
\* name is taken from a directory only when no directory above it has names
\* left, and from the directory the walk is in while that one has names left.
IterWalk ==
    /\ pc = "iter_log_files"
    /\ isdir(fs, path)
    /\ recursive
    /\ \E it \in walk_filenames(fs, path) \ seen :
           /\ \A other \in walk_filenames(fs, path) \ seen :
                  ~Above(other[1], it[1])
           /\ \A other \in walk_filenames(fs, path) \ seen :
                  (\E took \in seen : took[1] = other[1]) => other[1] = it[1]
           /\ LET full_path == path_join(it[1], it[2])
                  rel_path == relpath(full_path, path)
              IN  files' = IF selected(include, exclude, rel_path, it[2])
                           THEN Append(files, full_path) ELSE files
           /\ seen' = seen \cup {it}
    /\ UNCHANGED <<pc, fs, path, recursive, include, exclude, paths, error,
                   read_vars, parse_vars, entries, chunk_vars, cli_vars,
                   run_vars, sdk_vars>>

\* os.listdir(path) raises: the generator ends with that error.
IterListdirRaise ==
    /\ pc = "iter_log_files"
    /\ isdir(fs, path)
    /\ ~recursive
    /\ listdir(fs, path).error # ""
    /\ error' = listdir(fs, path).error
    /\ pc' = "raised"
    /\ UNCHANGED <<file_vars, read_vars, parse_vars, entries, chunk_vars,
                   cli_vars, run_vars, sdk_vars>>

\* One iteration of the loop over os.listdir(path).
IterListdir ==
    /\ pc = "iter_log_files"
    /\ isdir(fs, path)
    /\ ~recursive
    /\ listdir(fs, path).error = ""
    /\ \E name \in listdir(fs, path).names :
           /\ <<path, name>> \notin seen
           /\ LET full_path == path_join(path, name)
                  rel_path == relpath(full_path, path)
              IN  files' = IF /\ isfile(fs, full_path)
                              /\ selected(include, exclude, rel_path, name)
                           THEN Append(files, full_path) ELSE files
           /\ seen' = seen \cup {<<path, name>>}
    /\ UNCHANGED <<pc, fs, path, recursive, include, exclude, paths, error,
                   read_vars, parse_vars, entries, chunk_vars, cli_vars,
                   run_vars, sdk_vars>>

\* The loops are exhausted: files.sort(), and every path is yielded.
IterSortYield ==
    /\ pc = "iter_log_files"
    /\ isdir(fs, path)
    /\ IF recursive THEN walk_filenames(fs, path) \subseteq seen
       ELSE /\ listdir(fs, path).error = ""
            /\ \A name \in listdir(fs, path).names : <<path, name>> \in seen
    /\ files' = sort_paths(files)
    /\ paths' = sort_paths(files)
    /\ pc' = "resolved"
    /\ UNCHANGED <<fs, path, recursive, include, exclude, seen, error,
                   read_vars, parse_vars, entries, chunk_vars, cli_vars,
                   run_vars, sdk_vars>>

(***************************************************************************)
(* input_manager.py: read_logs, read_logs_from_paths                       *)
(*                                                                         *)
(* The data of a file is its bytes, one element per ASCII character;       *)
(* BadByte stands for a byte that no UTF-8 text holds.  The files are      *)
(* shorter than one read buffer, so the first read decodes the whole file. *)
(***************************************************************************)
BadByte == "0xff"

\* The utf-8 decoder of open(path, "r", encoding="utf-8").
utf8_decodes(data) == \A i \in 1..Len(data) : data[i] # BadByte

RECURSIVE universal_newlines(_)
\* newline=None of open(): \r\n and \r are read as \n.
universal_newlines(t) ==
    IF t = <<>> THEN <<>>
    ELSE IF Head(t) = "\r"
    THEN IF Len(t) > 1 /\ t[2] = "\n"
         THEN <<"\n">> \o universal_newlines(SubSeq(t, 3, Len(t)))
         ELSE <<"\n">> \o universal_newlines(Tail(t))
    ELSE <<Head(t)>> \o universal_newlines(Tail(t))

RECURSIVE readlines(_)
\* Iterating a text file: the lines, each with its terminator.
readlines(t) ==
    IF t = <<>> THEN <<>>
    ELSE LET nl == {i \in 1..Len(t) : t[i] = "\n"}
             end == IF nl = {} THEN Len(t) ELSE MinOf(nl)
         IN  <<SubSeq(t, 1, end)>> \o readlines(SubSeq(t, end + 1, Len(t)))

RECURSIVE rstrip_newline(_)
\* line.rstrip("\n")
rstrip_newline(l) ==
    IF l # <<>> /\ l[Len(l)] = "\n"
    THEN rstrip_newline(SubSeq(l, 1, Len(l) - 1))
    ELSE l

\* The lines `for line in f` gives for the file at p.
file_lines(f, p) == readlines(universal_newlines(Stat(f, p).data))

\* The path the for loop of read_logs_from_paths is at.
read_path == paths[path_no]

\* for path in paths: read_logs(path) finds no regular file.
ReadLogsNotFound ==
    /\ pc = "read_logs_from_paths"
    /\ path_no < Len(paths)
    /\ ~isfile(fs, paths[path_no + 1])
    /\ path_no' = path_no + 1
    /\ error' = "FileNotFoundError"
    /\ pc' = "raised"
    /\ UNCHANGED <<file_vars, opened, read_no, parse_vars, entries,
                   chunk_vars, cli_vars, run_vars, sdk_vars>>

\* open(path) is refused.
ReadLogsDenied ==
    /\ pc = "read_logs_from_paths"
    /\ path_no < Len(paths)
    /\ isfile(fs, paths[path_no + 1])
    /\ ~readable(Stat(fs, paths[path_no + 1]))
    /\ path_no' = path_no + 1
    /\ error' = "PermissionError"
    /\ pc' = "raised"
    /\ UNCHANGED <<file_vars, opened, read_no, parse_vars, entries,
                   chunk_vars, cli_vars, run_vars, sdk_vars>>

\* with open(path, "r", encoding="utf-8") as f
ReadLogsOpen ==
    /\ pc = "read_logs_from_paths"
    /\ path_no < Len(paths)
    /\ isfile(fs, paths[path_no + 1])
    /\ readable(Stat(fs, paths[path_no + 1]))
    /\ path_no' = path_no + 1
    /\ opened' = opened \cup {path_no + 1}
    /\ read_no' = 0
    /\ pc' = "read_logs"
    /\ UNCHANGED <<file_vars, error, parse_vars, entries, chunk_vars,
                   cli_vars, run_vars, sdk_vars>>

\* The first read finds bytes that are no UTF-8 text: the with statement
\* closes the file and the error leaves read_logs.
ReadLogsDecodeError ==
    /\ pc = "read_logs"
    /\ ~utf8_decodes(Stat(fs, read_path).data)
    /\ opened' = opened \ {path_no}
    /\ error' = "UnicodeDecodeError"
    /\ pc' = "raised"
    /\ UNCHANGED <<file_vars, path_no, read_no, parse_vars, entries,
                   chunk_vars, cli_vars, run_vars, sdk_vars>>

\* Variant: the line is put in front of the lines read so far.
ReadLogsYield_front ==
    /\ pc = "read_logs"
    /\ utf8_decodes(Stat(fs, read_path).data)
    /\ read_no < Len(file_lines(fs, read_path))
    /\ lines' = <<rstrip_newline(file_lines(fs, read_path)[read_no + 1])>>
                  \o lines
    /\ read_no' = read_no + 1
    /\ UNCHANGED <<pc, file_vars, path_no, opened, error, fmt, line_no, line,
                   branch, entry, entries, chunk_vars, cli_vars, run_vars,
                   sdk_vars>>

\* for line in f: yield line.rstrip("\n"); the consumer appends it.
ReadLogsYield ==
    /\ pc = "read_logs"
    /\ utf8_decodes(Stat(fs, read_path).data)
    /\ read_no < Len(file_lines(fs, read_path))
    /\ lines' = Append(lines,
                       rstrip_newline(file_lines(fs, read_path)[read_no + 1]))
    /\ read_no' = read_no + 1
    /\ UNCHANGED <<pc, file_vars, path_no, opened, error, fmt, line_no, line,
                   branch, entry, entries, chunk_vars, cli_vars, run_vars,
                   sdk_vars>>

\* Variant: the file stays open when its lines are exhausted.
ReadLogsClose_leak ==
    /\ pc = "read_logs"
    /\ utf8_decodes(Stat(fs, read_path).data)
    /\ read_no = Len(file_lines(fs, read_path))
    /\ pc' = "read_logs_from_paths"
    /\ UNCHANGED <<file_vars, read_vars, error, parse_vars, entries,
                   chunk_vars, cli_vars, run_vars, sdk_vars>>

\* The file is exhausted: the with statement closes it and read_logs
\* returns to the loop of read_logs_from_paths.
ReadLogsClose ==
    /\ pc = "read_logs"
    /\ utf8_decodes(Stat(fs, read_path).data)
    /\ read_no = Len(file_lines(fs, read_path))
    /\ opened' = opened \ {path_no}
    /\ pc' = "read_logs_from_paths"
    /\ UNCHANGED <<file_vars, path_no, read_no, error, parse_vars, entries,
                   chunk_vars, cli_vars, run_vars, sdk_vars>>

\* The loop over paths is exhausted.
ReadLogsDone ==
    /\ pc = "read_logs_from_paths"
    /\ path_no = Len(paths)
    /\ pc' = "read"
    /\ UNCHANGED <<file_vars, read_vars, error, parse_vars, entries,
                   chunk_vars, cli_vars, run_vars, sdk_vars>>

(***************************************************************************)
(* prompt_engine.py                                                        *)
(***************************************************************************)
PROMPT_TEMPLATE ==
    <<"Y", "o", "u", " ", "a", "r", "e", " ", "a", "n", "a", "l", "y", "z",
      "i", "n", "g", " ", "a", "p", "p", "l", "i", "c", "a", "t", "i", "o",
      "n", " ", "l", "o", "g", "s", ".", "\n", "L", "o", "g", "s", ":",
      "\n", "{", "c", "h", "u", "n", "k", "}", "\n", "T", "a", "s", "k",
      "s", ":", "\n", "1", ".", " ", "I", "d", "e", "n", "t", "i", "f", "y",
      " ", "c", "r", "i", "t", "i", "c", "a", "l", " ", "i", "s", "s", "u",
      "e", "s", "\n", "2", ".", " ", "E", "x", "p", "l", "a", "i", "n", " ",
      "l", "i", "k", "e", "l", "y", " ", "c", "a", "u", "s", "e", "s", "\n",
      "3", ".", " ", "S", "u", "g", "g", "e", "s", "t", " ", "n", "e", "x",
      "t", " ", "d", "e", "b", "u", "g", "g", "i", "n", "g", " ", "s", "t",
      "e", "p", "s", "\n">>

\* str.format(chunk=text) on a template whose one replacement field is
\* {chunk}: the field, braces included, is replaced by the text.
str_format(template, text) ==
    LET open == MinOf({i \in 1..Len(template) : template[i] = "{"})
        close == MinOf({i \in 1..Len(template) : template[i] = "}"})
    IN  SubSeq(template, 1, open - 1) \o text
            \o SubSeq(template, close + 1, Len(template))

\* Variant: the messages of the entries are joined.
format_prompt_messages(chunk) ==
    str_format(PROMPT_TEMPLATE,
               Join(<<"\n">>, [i \in 1..Len(chunk) |-> chunk[i].message.s]))

format_prompt(chunk) ==
    str_format(PROMPT_TEMPLATE,
               Join(<<"\n">>, [i \in 1..Len(chunk) |-> chunk[i].raw]))

\* prompts = [format_prompt(chunk) for chunk in chunks]
FormatPrompts ==
    /\ pc = "format_prompt"
    /\ prompts' = [i \in 1..Len(chunks) |-> format_prompt(chunks[i])]
    /\ pc' = "formatted"
    /\ UNCHANGED <<file_vars, read_vars, error, parse_vars, entries,
                   chunk_vars, out_file, summary, llm_vars, out_vars,
                   run_vars, sdk_vars>>

(***************************************************************************)
(* postprocessor.py: aggregate_responses, after section 4.6 of the         *)
(* specification (the module is not part of the sources at hand).          *)
(***************************************************************************)
SEPARATOR == <<"\n", "-", "-", "-", "\n">>

\* Variant: empty responses are dropped.
aggregate_responses_nonempty(rs) ==
    Join(SEPARATOR, SelectSeq(rs, LAMBDA r : r # <<>>))

aggregate_responses(rs) == Join(SEPARATOR, rs)

\* summary = aggregate_responses(responses)
AggregateResponses ==
    /\ pc = "aggregate_responses"
    /\ summary' = aggregate_responses(responses)
    /\ pc' = "aggregated"
    /\ UNCHANGED <<file_vars, read_vars, error, parse_vars, entries,
                   chunk_vars, out_file, prompts, llm_vars, out_vars,
                   run_vars, sdk_vars>>

(***************************************************************************)
(* cli.py: the analyze command.  Its steps call the functions above; the   *)
(* actions below are what analyze itself does between those calls.  A text *)
(* written by typer.echo is a record of its fixed part and of the value    *)
(* formatted into it.  An exception that no handler of analyze catches     *)
(* ends the command with exit code 1.                                      *)
(***************************************************************************)
Echo(text, arg) == [text |-> text, arg |-> arg]

P_dash == <<"-">>

\* if out_file: neither None nor the empty string.
truthy(opt) == opt # <<>> /\ opt[1] # <<>>

\* The directory a relative path is looked up in: the one named before the
\* last slash, the current directory when there is no slash.
P_cwd == <<".">>
parent(p) == IF Slashes(p) = {} THEN P_cwd ELSE dirname(p)

\* Variant: permission is taken from the entry's read permission and the
\* directory's permission is not looked at.
open_w_outcomes_by_read_permission(f, p) ==
    LET q == normpath(p)
        notdir == {i \in Slashes(q) \ {1} : ~isdir(f, SubSeq(q, 1, i - 1))}
    IN  IF notdir # {}
        THEN IF Stat(f, SubSeq(q, 1, MinOf(notdir) - 1)) = Absent
             THEN {"FileNotFoundError"}
             ELSE {"NotADirectoryError"}
        ELSE IF EndsSlash(p) \/ isdir(f, q) THEN {"IsADirectoryError"}
        ELSE IF Stat(f, q) = Absent THEN {""}
        ELSE IF ~readable(Stat(f, q)) THEN {"PermissionError"}
        ELSE IF Stat(f, q).kind = "special" THEN {"", "OSError", "blocks"}
        ELSE {""}

\* The outcomes open(p, "w") can have: the name of the error it raises, ""
\* when the file is opened, "blocks" when the call does not return.  A new
\* file needs write permission on its directory, an existing entry write
\* permission on itself.  On a special entry the outcome depends on the
\* entry: a device is opened, a socket raises OSError (ENXIO), a FIFO with
\* no reader blocks.
open_w_outcomes(f, p) ==
    LET q == normpath(p)
        notdir == {i \in Slashes(q) \ {1} : ~isdir(f, SubSeq(q, 1, i - 1))}
    IN  IF notdir # {}
        THEN IF Stat(f, SubSeq(q, 1, MinOf(notdir) - 1)) = Absent
             THEN {"FileNotFoundError"}
             ELSE {"NotADirectoryError"}
        ELSE IF EndsSlash(p) \/ isdir(f, q) THEN {"IsADirectoryError"}
        ELSE IF Stat(f, q) = Absent
        THEN IF writable(Stat(f, parent(q))) THEN {""}
             ELSE {"PermissionError"}
        ELSE IF ~writable(Stat(f, q)) THEN {"PermissionError"}
        ELSE IF Stat(f, q).kind = "special" THEN {"", "OSError", "blocks"}
        ELSE {""}

\* The file system after open(p, "w") and write(text): a new file is
\* readable and writable, an existing file keeps its mode, a special entry
\* stays what it is.
written(f, p, text) ==
    IF Stat(f, p).kind = "special" THEN f
    ELSE (p :> Node("file", text,
                    IF Stat(f, p).kind = "file" THEN Stat(f, p).mode
                    ELSE "rw")) @@ f

\* Variant: the rejection is echoed and the path is resolved all the same.
AnalyzeStdin_resolves ==
    /\ pc = "analyze"
    /\ path = P_dash
    /\ stderr' = Append(stderr, Echo("Error: stdin is not supported.", <<>>))
    /\ pc' = "iter_log_files"
    /\ UNCHANGED <<file_vars, read_vars, error, parse_vars, entries,
                   chunk_vars, out_file, prompts, summary, llm_vars, stdout,
                   exit_code, run_vars, sdk_vars>>

\* get_version(): the version the project file names; "unknown" when the
\* file cannot be read or parsed or names no version.  project is the
\* version entry of the file, empty when there is none.
V_unknown == <<"u", "n", "k", "n", "o", "w", "n">>
get_version(project) ==
    IF project # <<>> /\ project[1] # <<>> THEN project[1] ELSE V_unknown

\* version_callback(True), the eager callback of --version: the version
\* is echoed and typer.Exit() ends the program with code 0 before analyze
\* is entered.
VersionCallback ==
    /\ pc = "main"
    /\ \E project \in {<<>>, <<(<<>>)>>, <<(<<"0", ".", "1", ".", "0">>)>>} :
           stdout' = Append(stdout,
                            Echo("logpilot version ", get_version(project)))
    /\ exit_code' = 0
    /\ pc' = "exit"
    /\ UNCHANGED <<file_vars, read_vars, error, parse_vars, entries,
                   chunk_vars, out_file, prompts, summary, llm_vars, stderr,
                   run_vars, sdk_vars>>

\* main without --version: version_callback(None) returns, main passes and
\* the command analyze is entered.
MainCallback ==
    /\ pc = "main"
    /\ pc' = "analyze"
    /\ UNCHANGED <<file_vars, read_vars, error, parse_vars, entries,
                   chunk_vars, cli_vars, run_vars, sdk_vars>>

\* if path == "-": the rejection is echoed to standard error; the help
\* text is then asked of the function analyze, which has no get_help.
AnalyzeStdin ==
    /\ pc = "analyze"
    /\ path = P_dash
    /\ stderr' = Append(stderr, Echo("Error: stdin is not supported.", <<>>))
    /\ error' = "AttributeError"
    /\ exit_code' = 1
    /\ pc' = "exit"
    /\ UNCHANGED <<file_vars, read_vars, parse_vars, entries, chunk_vars,
                   out_file, prompts, summary, llm_vars, stdout, run_vars,
                   sdk_vars>>

\* paths = list(iter_log_files(path, ...))
AnalyzeResolve ==
    /\ pc = "analyze"
    /\ path # P_dash
    /\ pc' = "iter_log_files"
    /\ UNCHANGED <<file_vars, read_vars, error, parse_vars, entries,
                   chunk_vars, cli_vars, run_vars, sdk_vars>>

\* if not paths: "No log files matched" and typer.Exit(1), raised inside
\* the try block.  typer.Exit is click's Exit, a RuntimeError: the handler
\* `except Exception` catches it, echoes it as a read error and raises
\* typer.Exit(1) again.
AnalyzeNoPaths ==
    /\ pc = "resolved"
    /\ paths = <<>>
    /\ stderr' = stderr \o <<Echo("No log files matched: ", path),
                               Echo("Error reading log file: ", <<"1">>)>>
    /\ exit_code' = 1
    /\ pc' = "exit"
    /\ UNCHANGED <<file_vars, read_vars, error, parse_vars, entries,
                   chunk_vars, out_file, prompts, summary, llm_vars, stdout,
                   run_vars, sdk_vars>>

\* lines = [line for line in read_logs_from_paths(paths)]
AnalyzeRead ==
    /\ pc = "resolved"
    /\ paths # <<>>
    /\ pc' = "read_logs_from_paths"
    /\ UNCHANGED <<file_vars, read_vars, error, parse_vars, entries,
                   chunk_vars, cli_vars, run_vars, sdk_vars>>

\* Variant: a read error is reported and the lines read so far are used.
AnalyzeReadError_goes_on ==
    /\ pc = "raised"
    /\ stderr' = Append(stderr, Echo("Error reading log file: ", <<>>))
    /\ pc' = "read"
    /\ UNCHANGED <<file_vars, read_vars, error, parse_vars, entries,
                   chunk_vars, out_file, prompts, summary, llm_vars, stdout,
                   exit_code, run_vars, sdk_vars>>

\* The handlers of the try block: each reports the error and raises
\* typer.Exit(1).
AnalyzeReadError ==
    /\ pc = "raised"
    /\ stderr' = Append(stderr,
           IF error = "PermissionError"
           THEN Echo("Error: Permission denied reading log file: ", <<>>)
           ELSE IF error = "FileNotFoundError"
           THEN Echo("No such file", <<>>)
           ELSE Echo("Error reading log file: ", <<>>))
    /\ exit_code' = 1
    /\ pc' = "exit"
    /\ UNCHANGED <<file_vars, read_vars, error, parse_vars, entries,
                   chunk_vars, out_file, prompts, summary, llm_vars, stdout,
                   run_vars, sdk_vars>>

\* entries = list(parse_logs(iter(lines), fmt=format))
AnalyzeParse ==
    /\ pc = "read"
    /\ pc' = "parse_logs"
    /\ UNCHANGED <<file_vars, read_vars, error, parse_vars, entries,
                   chunk_vars, cli_vars, run_vars, sdk_vars>>

\* Variant: the exit carries the default code.
AnalyzeNoEntries_zero ==
    /\ pc = "parsed"
    /\ entries = <<>>
    /\ stderr' = Append(stderr, Echo("No log entries found.", <<>>))
    /\ exit_code' = 0
    /\ pc' = "exit"
    /\ UNCHANGED <<file_vars, read_vars, error, parse_vars, entries,
                   chunk_vars, out_file, prompts, summary, llm_vars, stdout,
                   run_vars, sdk_vars>>

\* if not entries: "No log entries found." and typer.Exit(1)
AnalyzeNoEntries ==
    /\ pc = "parsed"
    /\ entries = <<>>
    /\ stderr' = Append(stderr, Echo("No log entries found.", <<>>))
    /\ exit_code' = 1
    /\ pc' = "exit"
    /\ UNCHANGED <<file_vars, read_vars, error, parse_vars, entries,
                   chunk_vars, out_file, prompts, summary, llm_vars, stdout,
                   run_vars, sdk_vars>>

\* chunks = chunk_logs(entries, max_tokens)
AnalyzeChunk ==
    /\ pc = "parsed"
    /\ entries # <<>>
    /\ pc' = "chunk_logs"
    /\ UNCHANGED <<file_vars, read_vars, error, parse_vars, entries,
                   chunk_vars, cli_vars, run_vars, sdk_vars>>

\* typer.echo("Analyzing logs...")
AnalyzeAnnounce ==
    /\ pc = "chunked"
    /\ stdout' = Append(stdout, Echo("Analyzing logs...", <<>>))
    /\ pc' = "format_prompt"
    /\ UNCHANGED <<file_vars, read_vars, error, parse_vars, entries,
                   chunk_vars, out_file, prompts, summary, llm_vars, stderr,
                   exit_code, run_vars, sdk_vars>>

\* The canned response of the mock mode.
MOCK_RESPONSE ==
    <<"M", "o", "c", "k", "e", "d", " ", "s", "u", "m", "m", "a", "r", "y",
      ":", " ", "S", "o", "m", "e", "t", "h", "i", "n", "g", " ", "f", "a",
      "i", "l", "e", "d">>

\* LOGPILOT_MOCK_LLM is "1": one canned response per prompt, no call.
AnalyzeMockResponses ==
    /\ pc = "formatted"
    /\ mock' = TRUE
    /\ responses' = [i \in 1..Len(prompts) |-> MOCK_RESPONSE]
    /\ pc' = "aggregate_responses"
    /\ UNCHANGED <<file_vars, read_vars, error, parse_vars, entries,
                   chunk_vars, out_file, prompts, summary, calls, out_vars,
                   run_vars, sdk_vars>>

\* LOGPILOT_MOCK_LLM is not "1": llm = LLMClient(model=model)
AnalyzeLlmClient ==
    /\ pc = "formatted"
    /\ mock' = FALSE
    /\ pc' = "llm"
    /\ UNCHANGED <<file_vars, read_vars, error, parse_vars, entries,
                   chunk_vars, out_file, prompts, summary, responses, calls,
                   out_vars, run_vars, sdk_vars>>

\* Variant: every prompt that has no response yet is dispatched at once.
AnalyzeLlmCall_batch ==
    /\ pc = "llm"
    /\ Len(responses) < Len(prompts)
    /\ calls' = calls \o SubSeq(prompts, Len(responses) + 1, Len(prompts))
    /\ pc' = "llm_call"
    /\ UNCHANGED <<file_vars, read_vars, error, parse_vars, entries,
                   chunk_vars, out_file, prompts, summary, mock, responses,
                   out_vars, run_vars, sdk_vars>>

\* llm.analyze(prompt) is called for the next prompt.
AnalyzeLlmCall ==
    /\ pc = "llm"
    /\ Len(responses) < Len(prompts)
    /\ calls' = Append(calls, prompts[Len(responses) + 1])
    /\ pc' = "llm_call"
    /\ UNCHANGED <<file_vars, read_vars, error, parse_vars, entries,
                   chunk_vars, out_file, prompts, summary, mock, responses,
                   out_vars, run_vars, sdk_vars>>

\* Answers of the analysis collaborator.
A_rule == <<"-", "-", "-">>
A_lines == <<"a", "\n", "-", "-", "-", "\n", "b", " ">>
LlmReplies == {A_rule, <<>>}

\* Variant: the answer is put in front of the earlier ones.
AnalyzeLlmReturn_prepends ==
    /\ pc = "llm_call"
    /\ \E r \in LlmReplies : responses' = <<r>> \o responses
    /\ pc' = "llm"
    /\ UNCHANGED <<file_vars, read_vars, error, parse_vars, entries,
                   chunk_vars, out_file, prompts, summary, mock, calls,
                   out_vars, run_vars, sdk_vars>>

\* The call returns the text of the collaborator's answer.
AnalyzeLlmReturn ==
    /\ pc = "llm_call"
    /\ \E r \in LlmReplies : responses' = Append(responses, r)
    /\ pc' = "llm"
    /\ UNCHANGED <<file_vars, read_vars, error, parse_vars, entries,
                   chunk_vars, out_file, prompts, summary, mock, calls,
                   out_vars, run_vars, sdk_vars>>

\* Variant: a call that raises is issued again.
AnalyzeLlmRaise_retries ==
    /\ pc = "llm_call"
    /\ pc' = "llm"
    /\ UNCHANGED <<file_vars, read_vars, error, parse_vars, entries,
                   chunk_vars, cli_vars, run_vars, sdk_vars>>

\* The call raises: nothing in analyze catches the exception.
AnalyzeLlmRaise ==
    /\ pc = "llm_call"
    /\ error' = "LLMError"
    /\ exit_code' = 1
    /\ pc' = "exit"
    /\ UNCHANGED <<file_vars, read_vars, parse_vars, entries, chunk_vars,
                   out_file, prompts, summary, llm_vars, stdout, stderr,
                   run_vars, sdk_vars>>

\* The list comprehension over prompts is exhausted.
AnalyzeLlmDone ==
    /\ pc = "llm"
    /\ Len(responses) = Len(prompts)
    /\ pc' = "aggregate_responses"
    /\ UNCHANGED <<file_vars, read_vars, error, parse_vars, entries,
                   chunk_vars, cli_vars, run_vars, sdk_vars>>

\* with open(out_file, "w", encoding="utf-8") as f: f.write(summary)
AnalyzeWriteFile ==
    /\ pc = "aggregated"
    /\ truthy(out_file)
    /\ "" \in open_w_outcomes(fs, out_file[1])
    /\ fs' = written(fs, out_file[1], summary)
    /\ exit_code' = 0
    /\ pc' = "exit"
    /\ UNCHANGED <<path, recursive, include, exclude, seen, files, paths,
                   read_vars, error, parse_vars, entries, chunk_vars,
                   out_file, prompts, summary, llm_vars, stdout, stderr,
                   run_vars, sdk_vars>>

\* open(out_file, "w") raises: nothing in analyze catches the exception.
\* (When the call blocks, analyze stays where it is.)
AnalyzeWriteError ==
    /\ pc = "aggregated"
    /\ truthy(out_file)
    /\ \E err \in open_w_outcomes(fs, out_file[1]) \ {"", "blocks"} :
           error' = err
    /\ exit_code' = 1
    /\ pc' = "exit"
    /\ UNCHANGED <<file_vars, read_vars, parse_vars, entries, chunk_vars,
                   out_file, prompts, summary, llm_vars, stdout, stderr,
                   run_vars, sdk_vars>>

\* Variant: with --output json the report is echoed inside braces.
AnalyzeEcho_json ==
    /\ pc = "aggregated"
    /\ ~truthy(out_file)
    /\ stdout' = Append(stdout,
                        Echo("", IF output = <<"j", "s", "o", "n">>
                                 THEN <<"{">> \o summary \o <<"}">>
                                 ELSE summary))
    /\ exit_code' = 0
    /\ pc' = "exit"
    /\ UNCHANGED <<file_vars, read_vars, error, parse_vars, entries,
                   chunk_vars, out_file, prompts, summary, llm_vars, stderr,
                   run_vars, sdk_vars>>

\* else: typer.echo(summary)
AnalyzeEcho ==
    /\ pc = "aggregated"
    /\ ~truthy(out_file)
    /\ stdout' = Append(stdout, Echo("", summary))
    /\ exit_code' = 0
    /\ pc' = "exit"
    /\ UNCHANGED <<file_vars, read_vars, error, parse_vars, entries,
                   chunk_vars, out_file, prompts, summary, llm_vars, stderr,
                   run_vars, sdk_vars>>

(***************************************************************************)
(* llm_client.py: LLMClient.analyze and _analyze_async.  The client and    *)
(* the session are the SDK's: each awaited call returns or raises, and the *)
(* session delivers events to the registered handler while the coroutine   *)
(* is suspended in an await.                                               *)
(***************************************************************************)
\* A call made to the client or to the session.
Call(op, arg) == [op |-> op, arg |-> arg]

\* An event of the session: event.type.value and event.data.content.
Event(type, content) == [type |-> type, content |-> content]

\* The exceptions an SDK call raises here.
SdkErrors == {"TypeError", "ConnectionError"}

\* The rest of the pipeline, which _analyze_async leaves alone.
rest_vars ==
    <<parse_vars, entries, chunk_vars, file_vars, read_vars, cli_vars,
      run_vars>>

\* await client.start()
ClientStart ==
    /\ pc = "client.start"
    /\ ops' = Append(ops, Call("start", <<>>))
    /\ \/ /\ client' = "started"
          /\ pc' = "create_session"
          /\ error' = error
       \/ /\ client' = client
          /\ pc' = "raised"
          /\ error' \in SdkErrors
    /\ UNCHANGED <<rest_vars, prompt, session, events, result, done, ret>>

\* session = await client.create_session({"model": self.model})
CreateSession ==
    /\ pc = "create_session"
    /\ ops' = Append(ops, Call("create_session", <<>>))
    /\ \/ /\ session' = "live"
          /\ pc' = "session.on"
          /\ error' = error
       \/ /\ session' = session
          /\ pc' = "raised"
          /\ error' \in SdkErrors
    /\ UNCHANGED <<rest_vars, prompt, client, events, result, done, ret>>

\* result = ""; done = asyncio.Event(); session.on(on_event)
SessionOn ==
    /\ pc = "session.on"
    /\ result' = <<>>
    /\ done' = FALSE
    /\ ops' = Append(ops, Call("on", <<>>))
    /\ pc' = "session.send"
    /\ UNCHANGED <<rest_vars, error, prompt, client, session, events, ret>>

\* session.send({"prompt": prompt}) is called and awaited.
SessionSend ==
    /\ pc = "session.send"
    /\ ops' = Append(ops, Call("send", prompt))
    /\ pc' = "send.await"
    /\ UNCHANGED <<rest_vars, error, prompt, client, session, events, result,
                   done, ret>>

\* The coroutine is suspended in an await with the handler registered.
Suspended == pc \in {"send.await", "done.wait", "destroy.await", "stop.await"}

\* on_event on the locals st = [result, done].
on_event(st, event) ==
    IF event.type = "assistant.message"
    THEN [result |-> event.content, done |-> st.done]
    ELSE IF event.type = "session.idle"
         THEN [result |-> st.result, done |-> TRUE]
         ELSE st

\* The session calls the handler with an event.
SessionEvent(event) ==
    /\ Suspended
    /\ Len(events) < MaxEvents
    /\ events' = Append(events, event)
    /\ LET st == on_event([result |-> result, done |-> done], event)
       IN  /\ result' = st.result
           /\ done' = st.done
    /\ UNCHANGED <<rest_vars, pc, error, prompt, client, session, ops, ret>>

\* await session.send(...) returns or raises.
SessionSendDone ==
    /\ pc = "send.await"
    /\ \/ /\ pc' = "done.wait"
          /\ error' = error
       \/ /\ pc' = "raised"
          /\ error' \in SdkErrors
    /\ UNCHANGED <<rest_vars, prompt, client, session, ops, events, result,
                   done, ret>>

\* Variant: the coroutine goes on without waiting for the Event.
DoneWait_nowait ==
    /\ pc = "done.wait"
    /\ pc' = "session.destroy"
    /\ UNCHANGED <<rest_vars, error, sdk_vars>>

\* await done.wait() returns once the Event is set.
DoneWait ==
    /\ pc = "done.wait"
    /\ done
    /\ pc' = "session.destroy"
    /\ UNCHANGED <<rest_vars, error, sdk_vars>>

\* session.destroy() is called and awaited.
SessionDestroy ==
    /\ pc = "session.destroy"
    /\ ops' = Append(ops, Call("destroy", <<>>))
    /\ pc' = "destroy.await"
    /\ UNCHANGED <<rest_vars, error, prompt, client, session, events, result,
                   done, ret>>

\* await session.destroy() returns or raises.
SessionDestroyDone ==
    /\ pc = "destroy.await"
    /\ \/ /\ session' = "destroyed"
          /\ pc' = "client.stop"
          /\ error' = error
       \/ /\ session' = session
          /\ pc' = "raised"
          /\ error' \in SdkErrors
    /\ UNCHANGED <<rest_vars, prompt, client, ops, events, result, done, ret>>

\* client.stop() is called and awaited.
ClientStop ==
    /\ pc = "client.stop"
    /\ ops' = Append(ops, Call("stop", <<>>))
    /\ pc' = "stop.await"
    /\ UNCHANGED <<rest_vars, error, prompt, client, session, events, result,
                   done, ret>>

\* await client.stop() returns or raises.
ClientStopDone ==
    /\ pc = "stop.await"
    /\ \/ /\ client' = "stopped"
          /\ pc' = "return"
          /\ error' = error
       \/ /\ client' = client
          /\ pc' = "raised"
          /\ error' \in SdkErrors
    /\ UNCHANGED <<rest_vars, prompt, session, ops, events, result, done, ret>>

\* return result
AnalyzeAsyncReturn ==
    /\ pc = "return"
    /\ ret' = <<result>>
    /\ pc' = "returned"
    /\ UNCHANGED <<rest_vars, error, prompt, client, session, ops, events,
                   result, done>>

(***************************************************************************)
(* Specifications.                                                         *)
(***************************************************************************)
ParseIdle ==
    /\ lines = <<>>
    /\ fmt = "auto"
    /\ line_no = 0
    /\ line = <<>>
    /\ branch = "none"
    /\ entry = <<>>

ChunkIdle ==
    /\ max_tokens = 0
    /\ entry_no = 0
    /\ chunks = <<>>
    /\ current = <<>>
    /\ tokens = 0

FileIdle ==
    /\ fs = <<>>
    /\ path = <<>>
    /\ recursive = FALSE
    /\ include = <<>>
    /\ exclude = <<>>
    /\ seen = {}
    /\ files = <<>>
    /\ paths = <<>>

ReadIdle ==
    /\ path_no = 0
    /\ opened = {}
    /\ read_no = 0

CliIdle ==
    /\ out_file = <<>>
    /\ mock = FALSE
    /\ prompts = <<>>
    /\ responses = <<>>
    /\ calls = <<>>
    /\ summary = <<>>
    /\ stdout = <<>>
    /\ stderr = <<>>
    /\ exit_code = -1

RunIdle == output = <<"t", "e", "x", "t">> /\ first = <<>>

SdkIdle ==
    /\ prompt = <<>>
    /\ client = "none"
    /\ session = "none"
    /\ ops = <<>>
    /\ events = <<>>
    /\ result = <<>>
    /\ done = FALSE
    /\ ret = <<>>

IoIdle ==
    FileIdle /\ ReadIdle /\ error = "" /\ CliIdle /\ RunIdle /\ SdkIdle

\* parse_logs is called on ls with format f.
ParseLogsEnter(ls, f) ==
    /\ pc = "parse_logs"
    /\ lines = ls
    /\ fmt = f
    /\ line_no = 0
    /\ line = <<>>
    /\ branch = "none"
    /\ entry = <<>>
    /\ entries = <<>>

\* chunk_logs on a list of at most MaxEntries entries, with a ceiling from
\* -1 to MaxTokens.
InitChunk ==
    /\ pc = "chunk_logs"
    /\ entries \in SeqsUpTo(ChunkEntryPool, MaxEntries)
    /\ max_tokens \in -1..MaxTokens
    /\ entry_no = 0
    /\ chunks = <<>>
    /\ current = <<>>
    /\ tokens = 0
    /\ ParseIdle
    /\ IoIdle

NextChunk == ChunkLogsLoop \/ ChunkLogsReturn

SpecChunk == InitChunk /\ [][NextChunk]_vars

NextParse ==
    \/ ParseLogsNext
    \/ ParseLogLineBlank
    \/ ParseLogLineJson
    \/ ParseLogLineText
    \/ ParseLogsYield
    \/ ParseLogsSkip
    \/ ParseLogsDone

\* parse_log_line on every line of LinePool under every format.
InitParseLine ==
    /\ \E l \in LinePool, f \in Formats : ParseLogsEnter(<<l>>, f)
    /\ ChunkIdle
    /\ IoIdle

SpecParseLine == InitParseLine /\ [][NextParse]_vars

\* parse_logs on the sequences of at most MaxLines lines of SeqPool.
InitParseLogs ==
    /\ \E ls \in SeqsUpTo(SeqPool, MaxLines), f \in Formats :
           ParseLogsEnter(ls, f)
    /\ ChunkIdle
    /\ IoIdle

SpecParseLogs == InitParseLogs /\ [][NextParse]_vars

(***************************************************************************)
(* The inputs of iter_log_files: a directory d with the entries a.log and  *)
(* s.log and the subdirectory s with the entries a.log and b.txt; every    *)
(* entry is absent, a regular file or special, at most MaxSpecial of them  *)
(* special; and the full tree with d or s a directory the user may not     *)
(* write, not read, or neither.                                            *)
(***************************************************************************)
Leaves == {F_a, F_s, F_sa, F_sb}
Dirs == {P_d, P_s}

FsOf(present, special, data, mode) ==
    [n \in {P_cwd} \cup Dirs \cup Leaves |->
        IF n \in {P_cwd} \cup Dirs THEN Node("dir", <<>>, mode[n])
        ELSE IF n \in special THEN Node("special", <<>>, mode[n])
        ELSE IF n \in present THEN Node("file", data[n], mode[n])
        ELSE Absent]

NoData == [n \in Leaves |-> <<>>]
AllReadable == [n \in {P_cwd} \cup Dirs \cup Leaves |-> "rw"]

\* The mode a change of permission leaves.
ModeOf(how) ==
    IF how = "denied" THEN "denied"
    ELSE IF how = "writeonly" THEN "wo"
    ELSE IF how = "readonly" THEN "ro"
    ELSE "rw"

DirModes == {"ro", "wo", "denied"}

FsPool ==
    {FsOf(pr, sp, NoData, AllReadable) :
        pr \in SUBSET Leaves,
        sp \in {x \in SUBSET Leaves : Cardinality(x) <= MaxSpecial}}
      \cup {FsOf(Leaves, {}, NoData, [AllReadable EXCEPT ![n] = m]) :
                n \in Dirs, m \in DirModes}

Roots == {P_d, P_d_slash, P_s, F_a, F_a \o <<"/">>, P_nope}
IncludePool == {<<>>, <<G_log>>, <<G_sub>>, <<G_a, G_txt>>, <<G_q>>}
ExcludePool == {<<>>, <<G_adot>>, <<G_log>>, <<G_sub, G_b>>}

\* iter_log_files is called and list() consumes it.
IterLogFilesEnter(f, p, r, inc, exc) ==
    /\ pc = "iter_log_files"
    /\ fs = f
    /\ path = p
    /\ recursive = r
    /\ include = inc
    /\ exclude = exc
    /\ seen = {}
    /\ files = <<>>
    /\ paths = <<>>
    /\ error = ""

InitFiles ==
    /\ \E f \in FsPool, p \in Roots, r \in BOOLEAN,
          inc \in IncludePool, exc \in ExcludePool :
           IterLogFilesEnter(f, p, r, inc, exc)
    /\ ReadIdle
    /\ ParseIdle
    /\ entries = <<>>
    /\ ChunkIdle
    /\ CliIdle
    /\ RunIdle
    /\ SdkIdle

NextFiles ==
    \/ IterSingleFile
    \/ IterNotFound
    \/ IterWalk
    \/ IterListdirRaise
    \/ IterListdir
    \/ IterSortYield

SpecFiles == InitFiles /\ [][NextFiles]_vars

(***************************************************************************)
(* The inputs of read_logs_from_paths: the four files of d with the data   *)
(* below, at most one of them changed into an absent, special, unreadable  *)
(* or undecodable one, and every list of at most MaxPaths paths.           *)
(***************************************************************************)
D_a == <<"x", "\n", "y">>
D_s == <<>>
D_sa == <<"\n", "\n", "z", "\r", "\n", "w", "\n">>
D_sb == <<"q", "\r", "u", "\n">>
D_bad == <<"o", "k", "\n", BadByte, "\n">>

DataOf == (F_a :> D_a) @@ (F_s :> D_s) @@ (F_sa :> D_sa) @@ (F_sb :> D_sb)

Changes == {"absent", "special", "denied", "writeonly", "undecodable"}

\* The file system with the file at leaf n changed as how says.
FsChanged(n, how) ==
    FsOf(IF how = "absent" THEN Leaves \ {n} ELSE Leaves,
         IF how = "special" THEN {n} ELSE {},
         IF how = "undecodable" THEN [DataOf EXCEPT ![n] = D_bad] ELSE DataOf,
         [AllReadable EXCEPT ![n] = ModeOf(how)])

ReadFsPool ==
    {FsOf(Leaves, {}, DataOf, AllReadable)}
        \cup {FsChanged(n, how) : n \in Leaves, how \in Changes}

ReadPaths == Leaves \cup {P_d}

\* read_logs_from_paths(ps) is called and a list comprehension consumes it.
ReadLogsEnter(f, ps) ==
    /\ pc = "read_logs_from_paths"
    /\ fs = f
    /\ paths = ps
    /\ path_no = 0
    /\ opened = {}
    /\ read_no = 0
    /\ lines = <<>>
    /\ error = ""

InitRead ==
    /\ \E f \in ReadFsPool, ps \in SeqsUpTo(ReadPaths, MaxPaths) :
           ReadLogsEnter(f, ps)
    /\ path = <<>>
    /\ recursive = FALSE
    /\ include = <<>>
    /\ exclude = <<>>
    /\ seen = {}
    /\ files = <<>>
    /\ fmt = "auto"
    /\ line_no = 0
    /\ line = <<>>
    /\ branch = "none"
    /\ entry = <<>>
    /\ entries = <<>>
    /\ ChunkIdle
    /\ CliIdle
    /\ RunIdle
    /\ SdkIdle

NextRead ==
    \/ ReadLogsNotFound
    \/ ReadLogsDenied
    \/ ReadLogsOpen
    \/ ReadLogsDecodeError
    \/ ReadLogsYield
    \/ ReadLogsClose
    \/ ReadLogsDone

SpecRead == InitRead /\ [][NextRead]_vars

(***************************************************************************)
(* The inputs of format_prompt: the chunks of at most MaxEntries entries   *)
(* of PromptEntryPool, the empty chunk among them.                         *)
(***************************************************************************)
R_field == <<"{", "c", "h", "u", "n", "k", "}">>  \* {chunk}

PromptEntryPool ==
    {parse_log_line(L_example, "auto")[1],
     parse_log_line(L_two_commas, "auto")[1],
     LogEntry(PyNone, PyNone, PyNone, PyStr(<<>>), <<>>),
     LogEntry(PyNone, PyNone, PyNone, PyStr(<<"f">>), R_field)}

InitPrompt ==
    /\ pc = "format_prompt"
    /\ \E c \in SeqsUpTo(PromptEntryPool, MaxEntries) : chunks = <<c>>
    /\ max_tokens = 0
    /\ entry_no = 0
    /\ current = <<>>
    /\ tokens = 0
    /\ entries = <<>>
    /\ ParseIdle
    /\ IoIdle

SpecPrompt == InitPrompt /\ [][FormatPrompts]_vars

(***************************************************************************)
(* The inputs of aggregate_responses: the lists of at most MaxResponses    *)
(* responses of ResponsePool.                                              *)
(***************************************************************************)

ResponsePool == {<<>>, MOCK_RESPONSE, A_rule, A_lines}

InitAggregate ==
    /\ pc = "aggregate_responses"
    /\ responses \in SeqsUpTo(ResponsePool, MaxResponses)
    /\ out_file = <<>>
    /\ mock = FALSE
    /\ prompts = <<>>
    /\ calls = <<>>
    /\ summary = <<>>
    /\ stdout = <<>>
    /\ stderr = <<>>
    /\ exit_code = -1
    /\ FileIdle
    /\ ReadIdle
    /\ error = ""
    /\ ParseIdle
    /\ entries = <<>>
    /\ ChunkIdle
    /\ RunIdle
    /\ SdkIdle

SpecAggregate == InitAggregate /\ [][AggregateResponses]_vars

(***************************************************************************)
(* The inputs of analyze: the directory d with log files, at most one of   *)
(* them changed into an absent, special, unreadable or undecodable one,    *)
(* or d a directory that can be searched only; a root, the recursive flag, *)
(* the filters, the format, the ceiling and the output file.               *)
(***************************************************************************)
DEFAULT_MAX_TOKENS == 2048

O_out == <<"o", "u", "t">>  \* out
O_nodir == <<"n", "o", "/", "o", "u", "t">>  \* no/out
O_underfile == F_a \o <<"/", "x">>  \* d/a.log/x
O_new == P_d \o <<"/", "n", "e", "w">>  \* d/new

LogDataOf ==
    (F_a :> L_example \o <<"\n", "\n">> \o L_two_commas \o <<"\n">>)
        @@ (F_s :> <<>>)
        @@ (F_sa :> L_fragment \o <<"\n">>)
        @@ (F_sb :> L_two_commas)

FsLog(n, how) ==
    FsOf(IF how = "absent" THEN Leaves \ {n} ELSE Leaves,
         IF how = "special" THEN {n} ELSE {},
         IF how = "undecodable" THEN [LogDataOf EXCEPT ![n] = D_bad]
         ELSE LogDataOf,
         [AllReadable EXCEPT ![n] = ModeOf(how)])

CliFsBase ==
    {FsOf(Leaves, {}, LogDataOf, AllReadable),
     FsLog(F_a, "absent"), FsLog(F_a, "denied"), FsLog(F_s, "special"),
     FsLog(F_sb, "undecodable"), FsLog(F_sb, "denied"),
     FsLog(P_d, "denied")}

\* And file systems where the user may not write a log file, not read one,
\* not create an entry in d or in the current directory, not list d/s.
CliFsPool ==
    CliFsBase \cup {FsLog(F_a, "readonly"), FsLog(F_a, "writeonly"),
                    FsLog(P_d, "readonly"), FsLog(P_cwd, "readonly"),
                    FsLog(P_s, "writeonly")}

CliRoots == {P_d, F_a, P_nope, P_dash}
CliFilters ==
    {<<(<<>>), (<<>>)>>, <<(<<G_log>>), (<<G_sub>>)>>, <<(<<G_txt>>), (<<>>)>>,
     <<(<<G_b>>), (<<G_star>>)>>}
CliFormats == {"auto", "text"}
CliMaxTokens == {MaxTokens, DEFAULT_MAX_TOKENS}
OutBase == {<<>>, <<(<<>>)>>, <<O_out>>, <<O_nodir>>, <<O_underfile>>}

\* And output files that exist, as a log file, a special entry or a
\* directory, or are new in the directory d.
OutFiles == OutBase \cup {<<F_a>>, <<F_s>>, <<P_d>>, <<O_new>>}

\* analyze is called: the file system, the arguments and the options.
AnalyzeArgs(fss, outs) ==
    /\ \E f \in fss, p \in CliRoots, r \in BOOLEAN, flt \in CliFilters :
           /\ fs = f
           /\ path = p
           /\ recursive = r
           /\ include = flt[1]
           /\ exclude = flt[2]
    /\ fmt \in CliFormats
    /\ max_tokens \in CliMaxTokens
    /\ out_file \in outs
    /\ seen = {}
    /\ files = <<>>
    /\ paths = <<>>
    /\ ReadIdle
    /\ error = ""
    /\ lines = <<>>
    /\ line_no = 0
    /\ line = <<>>
    /\ branch = "none"
    /\ entry = <<>>
    /\ entries = <<>>
    /\ entry_no = 0
    /\ chunks = <<>>
    /\ current = <<>>
    /\ tokens = 0
    /\ mock = FALSE
    /\ prompts = <<>>
    /\ responses = <<>>
    /\ calls = <<>>
    /\ summary = <<>>
    /\ stdout = <<>>
    /\ stderr = <<>>
    /\ exit_code = -1
    /\ SdkIdle

AnalyzeEnter(fss, outs) == pc = "analyze" /\ AnalyzeArgs(fss, outs)

\* The file system the run starts from is kept in first.
InitCli ==
    /\ AnalyzeEnter(CliFsPool, OutFiles)
    /\ output = <<"t", "e", "x", "t">>
    /\ first = [fs |-> fs, output |-> output, obs |-> <<>>]

NextCli ==
    \/ AnalyzeStdin
    \/ AnalyzeResolve
    \/ NextFiles
    \/ AnalyzeNoPaths
    \/ AnalyzeRead
    \/ NextRead
    \/ AnalyzeReadError
    \/ AnalyzeParse
    \/ NextParse
    \/ AnalyzeNoEntries
    \/ AnalyzeChunk
    \/ NextChunk
    \/ AnalyzeAnnounce
    \/ FormatPrompts
    \/ AnalyzeMockResponses
    \/ AnalyzeLlmClient
    \/ AnalyzeLlmCall
    \/ AnalyzeLlmReturn
    \/ AnalyzeLlmRaise
    \/ AnalyzeLlmDone
    \/ AggregateResponses
    \/ AnalyzeWriteFile
    \/ AnalyzeWriteError
    \/ AnalyzeEcho

SpecCli == InitCli /\ [][NextCli]_vars

\* The application is started, with or without --version, on the command
\* lines of analyze over the first file systems and output files.
InitMain ==
    /\ pc = "main"
    /\ AnalyzeArgs(CliFsBase, OutBase)
    /\ output = <<"t", "e", "x", "t">>
    /\ first = [fs |-> fs, output |-> output, obs |-> <<>>]

NextMain ==
    \/ VersionCallback
    \/ MainCallback
    \/ NextCli

SpecMain == InitMain /\ [][NextMain]_vars

(***************************************************************************)
(* Two runs of analyze on the same inputs with different --output values.  *)
(***************************************************************************)
\* Values of the --output option: the two the help text names and another.
OutputPool == {<<"t", "e", "x", "t">>, <<"j", "s", "o", "n">>, <<"x", "m", "l">>}

\* What a run has left behind when it has ended.
Observed ==
    [paths |-> paths, lines |-> lines, entries |-> entries,
     chunks |-> chunks, prompts |-> prompts, mock |-> mock, calls |-> calls,
     responses |-> responses, summary |-> summary, fs |-> fs,
     stdout |-> stdout, stderr |-> stderr, error |-> error,
     exit_code |-> exit_code]

InitOutput ==
    /\ AnalyzeEnter(CliFsBase, OutBase \cup {<<F_a>>})
    /\ output \in OutputPool
    /\ first = [fs |-> fs, output |-> output, obs |-> <<>>]

\* The command is run again from the file system the first run started
\* from, with the same argument and options but another --output value.
AnalyzeAgain ==
    /\ pc = "exit"
    /\ first.obs = <<>>
    /\ first' = [first EXCEPT !.obs = <<Observed>>]
    /\ \E o \in OutputPool \ {output} : output' = o
    /\ fs' = first.fs
    /\ pc' = "analyze"
    /\ seen' = {}
    /\ files' = <<>>
    /\ paths' = <<>>
    /\ path_no' = 0
    /\ opened' = {}
    /\ read_no' = 0
    /\ error' = ""
    /\ lines' = <<>>
    /\ line_no' = 0
    /\ line' = <<>>
    /\ branch' = "none"
    /\ entry' = <<>>
    /\ entries' = <<>>
    /\ entry_no' = 0
    /\ chunks' = <<>>
    /\ current' = <<>>
    /\ tokens' = 0
    /\ mock' = FALSE
    /\ prompts' = <<>>
    /\ responses' = <<>>
    /\ calls' = <<>>
    /\ summary' = <<>>
    /\ stdout' = <<>>
    /\ stderr' = <<>>
    /\ exit_code' = -1
    /\ UNCHANGED <<path, recursive, include, exclude, fmt, max_tokens,
                   out_file, sdk_vars>>

NextOutput == NextCli \/ AnalyzeAgain

SpecOutput == InitOutput /\ [][NextOutput]_vars

(***************************************************************************)
(* One call of LLMClient.analyze.                                          *)
(***************************************************************************)
\* The prompts analyze is called with.
LlmPrompts == {<<>>, <<"p">>}

\* The events a session delivers.
EventPool ==
    {Event("assistant.message", A_rule), Event("assistant.message", <<>>),
     Event("assistant.message", A_lines), Event("session.idle", <<>>),
     Event("assistant.message_delta", A_lines)}

\* client = CopilotClient()
InitLlm ==
    /\ pc = "client.start"
    /\ prompt \in LlmPrompts
    /\ client = "created"
    /\ session = "none"
    /\ ops = <<>>
    /\ events = <<>>
    /\ result = <<>>
    /\ done = FALSE
    /\ ret = <<>>
    /\ ParseIdle
    /\ entries = <<>>
    /\ ChunkIdle
    /\ FileIdle
    /\ ReadIdle
    /\ error = ""
    /\ CliIdle
    /\ RunIdle

NextLlm ==
    \/ ClientStart
    \/ CreateSession
    \/ SessionOn
    \/ SessionSend
    \/ \E event \in EventPool : SessionEvent(event)
    \/ SessionSendDone
    \/ DoneWait
    \/ SessionDestroy
    \/ SessionDestroyDone
    \/ ClientStop
    \/ ClientStopDone
    \/ AnalyzeAsyncReturn

SpecLlm == InitLlm /\ [][NextLlm]_vars

(***************************************************************************)
(* Properties of chunk_logs (SpecChunk).                                   *)
(***************************************************************************)
RECURSIVE ChunkCost(_)
\* The total estimated cost of a chunk.
ChunkCost(c) ==
    IF c = <<>> THEN 0 ELSE estimate_tokens(Head(c).raw) + ChunkCost(Tail(c))

\* The number of entries in the first j chunks.
EntriesIn(j) == Len(Flatten(SubSeq(chunks, 1, j)))

Oversized(e) == estimate_tokens(e.raw) > max_tokens

\* C1: the chunks, concatenated in order, are exactly the input sequence;
\* while the loop runs, the closed chunks followed by the running chunk are
\* exactly the entries taken so far.
C1_ChunksConcatenateToInput ==
    /\ pc = "chunk_logs" =>
           Flatten(chunks) \o current = SubSeq(entries, 1, entry_no)
    /\ pc = "chunked" => Flatten(chunks) = entries

C1_Witness ==
    /\ pc = "chunked"
    /\ Len(entries) = 3
    /\ entries[1] # entries[2] /\ entries[2] # entries[3]
    /\ Len(chunks) = 2
    /\ Len(chunks[1]) = 2

\* C2: no closed chunk is ever empty, and an empty input returns no chunk.
C2_ChunksNonEmpty ==
    /\ \A j \in 1..Len(chunks) : chunks[j] # <<>>
    /\ (pc = "chunked" /\ entries = <<>>) => chunks = <<>>

C2_Witness ==
    /\ pc = "chunked"
    /\ Len(entries) >= 2
    /\ Oversized(entries[1])
    /\ Len(chunks) = Len(entries)

\* C3 as stated: every returned chunk costs at most max_tokens.
C3_EveryChunkWithinCeiling ==
    pc = "chunked" =>
        \A j \in 1..Len(chunks) : ChunkCost(chunks[j]) <= max_tokens

\* C3 as amended: every returned chunk of two or more entries costs at most
\* max_tokens.
C3_MultiEntryChunkWithinCeiling ==
    pc = "chunked" =>
        \A j \in 1..Len(chunks) :
            Len(chunks[j]) >= 2 => ChunkCost(chunks[j]) <= max_tokens

C3_Witness ==
    /\ pc = "chunked"
    /\ \E j \in 1..Len(chunks) :
           Len(chunks[j]) >= 2 /\ ChunkCost(chunks[j]) = max_tokens
    /\ \E j \in 1..Len(chunks) : ChunkCost(chunks[j]) > max_tokens

\* C4: the entry at every position i whose own cost exceeds max_tokens is
\* the only entry of the chunk that covers position i.
C4_OversizedEntryAlone ==
    pc = "chunked" =>
        \A i \in 1..Len(entries) :
            Oversized(entries[i]) =>
                \E j \in 1..Len(chunks) :
                    /\ EntriesIn(j - 1) = i - 1
                    /\ chunks[j] = <<entries[i]>>

C4_Witness ==
    /\ pc = "chunked"
    /\ Len(entries) = 3
    /\ ~Oversized(entries[1])
    /\ Oversized(entries[2])
    /\ ~Oversized(entries[3])
    /\ chunks[2] = <<entries[2]>>

\* C5: when every entry's cost exceeds max_tokens, and whenever
\* max_tokens <= 0, there are as many chunks as entries, of one entry each.
C5_AllOversizedOnePerChunk ==
    (/\ pc = "chunked"
     /\ \/ \A i \in 1..Len(entries) : Oversized(entries[i])
        \/ max_tokens <= 0) =>
        /\ Len(chunks) = Len(entries)
        /\ \A j \in 1..Len(chunks) : Len(chunks[j]) = 1

C5_Witness ==
    /\ pc = "chunked"
    /\ max_tokens >= 1
    /\ Len(entries) = 3
    /\ \A i \in 1..Len(entries) : Oversized(entries[i])
    /\ Len(chunks) = 3

(***************************************************************************)
(* Properties of parse_log_line (SpecParseLine) and of parse_logs          *)
(* (SpecParseLogs).  At pc = "parse_logs_entry" the call                   *)
(* parse_log_line(line, fmt) has just returned entry.                      *)
(***************************************************************************)
Returned == pc = "parse_logs_entry"

\* fmt is json, or fmt is auto and the trimmed line starts with a brace.
JsonRouted == fmt = "json" \/ (fmt = "auto" /\ StartsWith(Strip(line), <<"{">>))

\* fmt is text, or fmt is auto and the trimmed line starts with no brace.
TextRouted == fmt = "text" \/ (fmt = "auto" /\ ~StartsWith(Strip(line), <<"{">>))

Decoded == json_loads(line)
DecodesToObject == Decoded.ok /\ Decoded.val.t = "dict"

HasKey(d, k) == \E i \in 1..Len(d.items) : d.items[i].k = k
\* The value of key k in the object d, absent (None) without the key.
ValueOf(d, k) ==
    IF HasKey(d, k)
    THEN d.items[CHOOSE i \in 1..Len(d.items) : d.items[i].k = k].v
    ELSE PyNone

W_ERROR == <<"E", "R", "R", "O", "R">>
W_boom == <<"b", "o", "o", "m">>

\* C6: a line routed to JSON that decodes to an object gives the entry whose
\* timestamp, level and source are the object's values (absent without the
\* key), whose message is the message value or else str of the object, and
\* whose raw is the line as given; the example of the specification holds.
C6_JsonObjectEntry ==
    /\ (Returned /\ JsonRouted /\ DecodesToObject) =>
           /\ Len(entry) = 1
           /\ entry[1].timestamp = ValueOf(Decoded.val, K_timestamp)
           /\ entry[1].level = ValueOf(Decoded.val, K_level)
           /\ entry[1].source = ValueOf(Decoded.val, K_source)
           /\ entry[1].message =
                  IF HasKey(Decoded.val, K_message)
                  THEN ValueOf(Decoded.val, K_message)
                  ELSE PyStr(repr(Decoded.val))
           /\ entry[1].raw = line
    /\ (Returned /\ line = L_example /\ fmt = "auto") =>
           entry = <<LogEntry(PyNone, PyStr(W_ERROR), PyNone, PyStr(W_boom),
                              L_example)>>

C6_Witness ==
    /\ Returned
    /\ fmt = "auto"
    /\ line # Strip(line)
    /\ DecodesToObject
    /\ ~HasKey(Decoded.val, K_message)
    /\ HasKey(Decoded.val, K_level)
    /\ Len(entry) = 1
    /\ entry[1].source = PyNone
    /\ entry[1].message.t = "str"
    /\ entry[1].message.s # line

\* C7: a line routed to JSON that does not decode to an object yields no
\* value, and the call does not return from the text branch.
C7_JsonFailureYieldsNothing ==
    (Returned /\ JsonRouted /\ ~DecodesToObject) =>
        /\ entry = <<>>
        /\ branch # "text"

C7_Witness ==
    /\ Returned
    /\ JsonRouted
    /\ Decoded.ok
    /\ Decoded.val.t = "list"
    /\ Count(line, ",") >= 2
    /\ branch = "json"
    /\ entry = <<>>

\* C8: a non-blank line routed to text yields an entry exactly when it holds
\* at least two commas, and that entry has timestamp, level and source
\* absent and message and raw equal to the line as given.
C8_TextEntryIffTwoCommas ==
    (Returned /\ Strip(line) # <<>> /\ TextRouted) =>
        /\ entry # <<>> <=> Count(line, ",") >= 2
        /\ entry # <<>> =>
               entry = <<LogEntry(PyNone, PyNone, PyNone, PyStr(line), line)>>

C8_Witness ==
    /\ Returned
    /\ fmt = "auto"
    /\ Count(line, ",") = 2
    /\ line # Strip(line)
    /\ Len(entry) = 1
    /\ entry[1].message = PyStr(line)

\* C9: every entry parse_log_line returns has a message that is a string.
C9_MessageIsString ==
    (Returned /\ entry # <<>>) => entry[1].message.t = "str"

RECURSIVE Produced(_, _)
\* The entries parse_log_line produces for the lines ls, in order.
Produced(ls, f) ==
    IF ls = <<>> THEN <<>>
    ELSE parse_log_line(Head(ls), f) \o Produced(Tail(ls), f)

Parses(l) == parse_log_line(l, fmt) # <<>>

\* C10: parse_logs yields exactly the entries parse_log_line produces, in
\* the order of the lines; their raw fields are the subsequence of the
\* lines that parse.
C10_ParseLogsInOrder ==
    /\ pc = "parse_logs" => entries = Produced(SubSeq(lines, 1, line_no), fmt)
    /\ pc = "parsed" =>
           /\ entries = Produced(lines, fmt)
           /\ [i \in 1..Len(entries) |-> entries[i].raw]
                  = SelectSeq(lines, Parses)

C10_Witness ==
    /\ pc = "parsed"
    /\ Len(lines) = 3
    /\ Parses(lines[1]) /\ ~Parses(lines[2]) /\ Parses(lines[3])
    /\ lines[1] # lines[3]
    /\ Len(entries) = 2
    /\ entries[1].raw = lines[1]
    /\ entries[2].raw = lines[3]

(***************************************************************************)
(* Properties of iter_log_files (SpecFiles).                               *)
(***************************************************************************)
Resolved == pc = "resolved"

InPaths(p) == \E i \in 1..Len(paths) : paths[i] = p

\* m lies in the subtree of directory p.
Under(m, p) ==
    /\ Len(m) > Len(normpath(p)) + 1
    /\ SubSeq(m, 1, Len(normpath(p)) + 1) = normpath(p) \o <<"/">>

\* The regular files the claim speaks of: the root itself when it is a
\* file, else the regular files of the directory, of its subtree when
\* recursive.
MemberFiles ==
    IF isfile(fs, path) THEN {path}
    ELSE {m \in DOMAIN fs :
            /\ fs[m].kind = "file"
            /\ Under(m, path)
            /\ (recursive \/ dirname(m) = normpath(path))}

\* Every directory from the root down to the one that holds m can be read.
Listed(m) ==
    \A i \in Slashes(m) :
        i > Len(normpath(path)) => readable(Stat(fs, SubSeq(m, 1, i - 1)))

\* The regular files the call considers: the root itself when it is a file,
\* else the members the enumeration reaches.
Candidates ==
    IF isfile(fs, path) THEN {path} ELSE {m \in MemberFiles : Listed(m)}

RelOf(m) == IF isfile(fs, path) THEN basename(m) ELSE relpath(m, path)

\* The filename or the root-relative path of m matches a pattern of pats.
MatchesAny(pats, m) ==
    \E i \in 1..Len(pats) :
        fnmatch(basename(m), pats[i]) \/ fnmatch(RelOf(m), pats[i])

C11_WitnessUnlisted ==
    /\ Resolved
    /\ recursive
    /\ paths # <<>>
    /\ \E m \in MemberFiles \ Candidates :
           /\ include = <<>> \/ MatchesAny(include, m)
           /\ ~MatchesAny(exclude, m)

DirectMatching ==
    {m \in DOMAIN fs :
        /\ fs[m].kind = "file"
        /\ dirname(m) = normpath(path)
        /\ (include = <<>> \/ MatchesAny(include, m))
        /\ ~MatchesAny(exclude, m)}

\* The regular files anywhere below the root that pass the filters.
SubtreeMatching ==
    {m \in DOMAIN fs :
        /\ fs[m].kind = "file"
        /\ Under(m, path)
        /\ (include = <<>> \/ MatchesAny(include, m))
        /\ ~MatchesAny(exclude, m)}

\* C12 as stated: for a directory root the non-recursive call returns the
\* matching direct children and nothing located in a subdirectory; the
\* recursive call returns the matching files of the whole subtree, among
\* them every file the non-recursive call returns.
C12_RecursiveCoversSubtree ==
    (Resolved /\ isdir(fs, path)) =>
        /\ ~recursive =>
              /\ \A i \in 1..Len(paths) : dirname(paths[i]) = normpath(path)
              /\ \A m \in DirectMatching : InPaths(m)
              /\ \A i \in 1..Len(paths) : paths[i] \in DirectMatching
        /\ recursive =>
              /\ \A m \in SubtreeMatching : InPaths(m)
              /\ \A m \in DirectMatching : InPaths(m)

\* A recursive call has ended without error and without the matching
\* files of a subdirectory that cannot be read.
C12_SubtreeNotWalked ==
    /\ Resolved
    /\ isdir(fs, path)
    /\ recursive
    /\ error = ""
    /\ \E m \in SubtreeMatching : ~Listed(m) /\ ~InPaths(m)

\* C13: for a directory root the returned paths are in strictly ascending
\* order of the full path string, so sorted and without duplicates, in both
\* modes and whatever the order of enumeration.
C13_PathsSortedNoDuplicates ==
    (Resolved /\ isdir(fs, path)) =>
        \A i, j \in 1..Len(paths) : i < j => StrLess(paths[i], paths[j])

\* Three paths are returned, d/s.log before d/s/a.log.
C13_Witness ==
    /\ Resolved
    /\ isdir(fs, path)
    /\ Len(paths) >= 3
    /\ \E i \in 1..(Len(paths) - 1) : paths[i] = F_s /\ paths[i + 1] = F_sa

\* C14: every path returned for a directory root is a regular file, in
\* recursive mode as in non-recursive mode.
C14_OnlyRegularFiles ==
    (Resolved /\ isdir(fs, path)) =>
        \A i \in 1..Len(paths) : isfile(fs, paths[i])

(***************************************************************************)
(* Properties of read_logs_from_paths (SpecRead).                          *)
(***************************************************************************)
\* The lines of the file at p, terminators stripped.
LinesOf(p) ==
    [k \in 1..Len(file_lines(fs, p)) |-> rstrip_newline(file_lines(fs, p)[k])]

\* C15: read_logs_from_paths yields the lines of the files in the order of
\* the paths as given and, within a file, in file order, none lost or
\* duplicated; an empty file contributes no line.
C15_LinesInPathOrder ==
    /\ pc = "read" =>
           lines = Flatten([i \in 1..Len(paths) |-> LinesOf(paths[i])])
    /\ pc = "read_logs" =>
           lines = Flatten([i \in 1..(path_no - 1) |-> LinesOf(paths[i])])
                     \o SubSeq(LinesOf(read_path), 1, read_no)

\* Three files are read, given in descending order of their paths, the
\* second of them empty.
C15_Witness ==
    /\ pc = "read"
    /\ Len(paths) = 3
    /\ StrLess(paths[3], paths[1])
    /\ LinesOf(paths[1]) # <<>>
    /\ LinesOf(paths[2]) = <<>>
    /\ LinesOf(paths[3]) # <<>>
    /\ Len(lines) = Len(LinesOf(paths[1])) + Len(LinesOf(paths[3]))

\* C17: at most one input file is open at any moment, none between two
\* files, and none once the sequence is exhausted or has raised an error.
C17_OneFileOpen ==
    /\ Cardinality(opened) <= 1
    /\ pc = "read_logs" => opened = {path_no}
    /\ pc \in {"read_logs_from_paths", "read", "raised"} => opened = {}

\* The second file is open after the first was read and closed.
C17_Witness ==
    /\ pc = "read_logs"
    /\ path_no = 2
    /\ opened = {2}
    /\ isfile(fs, paths[1])
    /\ Len(lines) >= Len(LinesOf(paths[1]))
    /\ LinesOf(paths[1]) # <<>>

\* A file that was opened is closed when decoding it fails.
C17_WitnessError ==
    /\ pc = "raised"
    /\ error = "UnicodeDecodeError"
    /\ path_no = 2
    /\ opened = {}

(***************************************************************************)
(* Properties of format_prompt (SpecPrompt) and of aggregate_responses     *)
(* (SpecAggregate).                                                        *)
(***************************************************************************)
\* What stands before and after the body of every prompt.
P_Intro ==
    <<"Y", "o", "u", " ", "a", "r", "e", " ", "a", "n", "a", "l", "y", "z",
      "i", "n", "g", " ", "a", "p", "p", "l", "i", "c", "a", "t", "i", "o",
      "n", " ", "l", "o", "g", "s", ".", "\n", "L", "o", "g", "s", ":",
      "\n">>
P_Tasks ==
    <<"\n", "T", "a", "s", "k", "s", ":", "\n", "1", ".", " ", "I", "d",
      "e", "n", "t", "i", "f", "y", " ", "c", "r", "i", "t", "i", "c", "a",
      "l", " ", "i", "s", "s", "u", "e", "s", "\n", "2", ".", " ", "E", "x",
      "p", "l", "a", "i", "n", " ", "l", "i", "k", "e", "l", "y", " ", "c",
      "a", "u", "s", "e", "s", "\n", "3", ".", " ", "S", "u", "g", "g", "e",
      "s", "t", " ", "n", "e", "x", "t", " ", "d", "e", "b", "u", "g", "g",
      "i", "n", "g", " ", "s", "t", "e", "p", "s", "\n">>

\* The raw fields of chunk c, each but the first after one newline.
RawBody(c) ==
    Flatten([i \in 1..Len(c) |->
                IF i = 1 THEN c[i].raw ELSE <<"\n">> \o c[i].raw])

\* C19: a prompt is the introductory line and the Logs: heading, then the
\* raw fields of the chunk's entries in chunk order joined by one newline,
\* then the task list; heading and task list are the same for every chunk,
\* the empty one included.
C19_PromptIsTemplateAroundRaws ==
    pc = "formatted" =>
        /\ Len(prompts) = Len(chunks)
        /\ \A i \in 1..Len(chunks) :
               prompts[i] = P_Intro \o RawBody(chunks[i]) \o P_Tasks

\* A prompt is made of a chunk of three entries, one of them with a message
\* that differs from its raw field.
C19_Witness ==
    /\ pc = "formatted"
    /\ Len(chunks[1]) = 3
    /\ \E i \in 1..3 : chunks[1][i].message.s # chunks[1][i].raw
    /\ chunks[1][1].raw # chunks[1][2].raw
    /\ Len(prompts[1]) > Len(P_Intro) + Len(P_Tasks)

\* The empty chunk gives the template with an empty body.
C19_WitnessEmpty ==
    /\ pc = "formatted"
    /\ chunks = <<(<<>>)>>
    /\ prompts = <<P_Intro \o P_Tasks>>

\* Where response i starts in the report: after the responses before it,
\* each followed by a separator of five characters.
RECURSIVE Offset(_)
Offset(i) ==
    IF i = 1 THEN 0 ELSE Offset(i - 1) + Len(responses[i - 1]) + 5

\* C18: the report is the responses in their order with the separator
\* newline, three hyphens, newline between consecutive ones: empty for no
\* response, the response itself for one, and N - 1 separators for N; every
\* response, an empty one too, keeps its position and its text.
C18_JoinedWithSeparator ==
    pc = "aggregated" =>
        LET n == Len(responses)
        IN  /\ n = 0 => summary = <<>>
            /\ n = 1 => summary = responses[1]
            /\ n > 0 => Len(summary) = Offset(n) + Len(responses[n])
            /\ \A i \in 1..n :
                   SubSeq(summary, Offset(i) + 1,
                          Offset(i) + Len(responses[i])) = responses[i]
            /\ \A i \in 2..n :
                   SubSeq(summary, Offset(i) - 4, Offset(i))
                       = <<"\n", "-", "-", "-", "\n">>

\* Three responses are joined, the second of them empty, the first and the
\* third equal.
C18_Witness ==
    /\ pc = "aggregated"
    /\ Len(responses) = 3
    /\ responses[1] # <<>>
    /\ responses[2] = <<>>
    /\ responses[3] = responses[1]
    /\ Len(summary) = 2 * Len(responses[1]) + 10

(***************************************************************************)
(* Properties of the analyze command (SpecCli).                            *)
(***************************************************************************)
\* read_logs_from_paths has raised an error at path number path_no and the
\* error is with its caller.
ReaderRaised == pc = "raised" /\ path_no > 0

\* The lines of the paths before the one the reader is at.
LinesBefore == Flatten([i \in 1..(path_no - 1) |-> LinesOf(paths[i])])

NothingParsedOrAnalyzed ==
    /\ line_no = 0
    /\ entries = <<>>
    /\ chunks = <<>>
    /\ prompts = <<>>
    /\ calls = <<>>
    /\ responses = <<>>

\* C16: when the reader reaches a path that is no regular file or cannot be
\* opened or read, it raises the error having yielded the lines of the
\* earlier paths only; analyze then exits with a non-zero code, with no
\* entry parsed and no analysis call issued.
C16_ReadErrorAbortsRun ==
    /\ [](ReaderRaised =>
            /\ error \in {"FileNotFoundError", "PermissionError",
                          "UnicodeDecodeError"}
            /\ lines = LinesBefore
            /\ opened = {}
            /\ NothingParsedOrAnalyzed)
    /\ [][ReaderRaised =>
            /\ pc' = "exit"
            /\ exit_code' # 0
            /\ exit_code' # -1
            /\ NothingParsedOrAnalyzed'
            /\ stdout' = <<>>
            /\ fs' = fs]_vars

\* The run has ended on a permission error at a later file, after the
\* lines of an earlier file were read.
C16_Witness ==
    /\ pc = "exit"
    /\ exit_code = 1
    /\ error = "PermissionError"
    /\ path_no > 1
    /\ lines # <<>>
    /\ lines = LinesBefore
    /\ entries = <<>>
    /\ calls = <<>>

\* Resolution, reading, parsing and every analysis call have succeeded:
\* there are entries, a prompt for every chunk and a response for every
\* prompt.
StagesSucceeded ==
    /\ paths # <<>>
    /\ entries # <<>>
    /\ chunks # <<>>
    /\ Len(prompts) = Len(chunks)
    /\ Len(responses) = Len(prompts)

\* The report can be written: there is no output file, or opening it for
\* writing has no other outcome than success.
WriteSucceeds ==
    truthy(out_file) => open_w_outcomes(first.fs, out_file[1]) = {""}

\* The report may be written: there is no output file, or opening it for
\* writing is one of the outcomes.
WriteMaySucceed ==
    truthy(out_file) => "" \in open_w_outcomes(first.fs, out_file[1])

\* The output file cannot be opened for writing, read off the file system
\* the run started on: its directory is missing or is no directory, the
\* path names a directory, the entry exists without write permission, or it
\* does not exist and its directory has no write permission.
CannotOpen ==
    /\ truthy(out_file)
    /\ LET p == out_file[1]
           dir == Stat(first.fs, parent(normpath(p)))
           old == Stat(first.fs, p)
       IN  \/ dir.kind # "dir"
           \/ EndsSlash(p)
           \/ old.kind = "dir"
           \/ old.kind \in {"file", "special"} /\ ~writable(old)
           \/ old.kind = "absent" /\ ~writable(dir)

\* The output file is a special entry (a device, a socket, a FIFO).
OutIsSpecial ==
    truthy(out_file) /\ Stat(first.fs, out_file[1]).kind = "special"

\* The report is in the output file (or went to the special entry of that
\* name), a new file being readable and writable and an existing one
\* keeping its mode, with the rest of the file system as the run found it;
\* or, with no output file, the report is on standard output.
ReportWritten ==
    IF truthy(out_file)
    THEN /\ LET old == Stat(first.fs, out_file[1])
            IN  IF old.kind = "special" THEN fs = first.fs
                ELSE Stat(fs, out_file[1]) =
                         Node("file", summary,
                              IF old.kind = "file" THEN old.mode ELSE "rw")
         /\ \A n \in DOMAIN first.fs \ {out_file[1]} : fs[n] = first.fs[n]
         /\ DOMAIN fs = DOMAIN first.fs \cup {out_file[1]}
         /\ \A i \in 1..Len(stdout) : stdout[i].arg # summary \/ summary = <<>>
    ELSE /\ stdout # <<>>
         /\ stdout[Len(stdout)] = Echo("", summary)

\* The cases the command has to refuse: no file resolved, no entry parsed,
\* or an error of the resolver or the reader.
MustFail ==
    \/ paths = <<>>
    \/ entries = <<>>
    \/ (error # "" /\ prompts = <<>>)

\* C20 as stated: analyze exits non-zero when no file is resolved, no entry
\* parses or the resolver or the reader raises, and exits with code zero
\* exactly when resolution, reading, parsing and every analysis call succeed,
\* the report then being written to the output file or to standard output.
C20_ExitZeroIffStagesSucceed ==
    pc = "exit" =>
        /\ MustFail => exit_code # 0
        /\ exit_code = 0 <=> StagesSucceeded
        /\ exit_code = 0 => ReportWritten

\* C20, amended: the exit code is zero exactly when resolution, reading,
\* parsing and every analysis call succeed and the report can be written
\* (zero only when opening the output file may succeed, and always when it
\* cannot fail); the report is then in the output file or, with none, on
\* standard output.  The code is non-zero whenever the output file cannot
\* be opened for writing, and zero when every stage succeeded and the
\* output file can be opened and is no special entry.
C20_ExitZeroIffReportWritten ==
    pc = "exit" =>
        /\ exit_code \in {0, 1}
        /\ MustFail => exit_code # 0
        /\ exit_code = 0 => (StagesSucceeded /\ WriteMaySucceed)
        /\ (StagesSucceeded /\ WriteSucceeds) => exit_code = 0
        /\ CannotOpen => exit_code # 0
        /\ (StagesSucceeded /\ ~CannotOpen /\ ~OutIsSpecial) => exit_code = 0
        /\ exit_code = 0 => ReportWritten

\* A run has ended with code zero and a report of two responses in the
\* output file.
C20_Witness ==
    /\ pc = "exit"
    /\ exit_code = 0
    /\ truthy(out_file)
    /\ Len(responses) >= 2
    /\ summary # <<>>
    /\ Stat(fs, out_file[1]).data = summary

\* Every stage has succeeded but the output file cannot be opened.
C20_WitnessWriteError ==
    /\ pc = "exit"
    /\ exit_code = 1
    /\ StagesSucceeded
    /\ ~WriteSucceeds

\* Every stage has succeeded but the output file exists and is read-only:
\* nothing was written.
C20_WitnessReadOnly ==
    /\ pc = "exit"
    /\ exit_code = 1
    /\ StagesSucceeded
    /\ error = "PermissionError"
    /\ out_file = <<F_a>>
    /\ Stat(first.fs, F_a) = Node("file", LogDataOf[F_a], "ro")
    /\ fs = first.fs

\* Every stage has succeeded but the output file would be new in a
\* directory the user may not write.
C20_WitnessNoCreate ==
    /\ pc = "exit"
    /\ exit_code = 1
    /\ StagesSucceeded
    /\ error = "PermissionError"
    /\ Stat(first.fs, out_file[1]) = Absent
    /\ ~writable(Stat(first.fs, parent(out_file[1])))
    /\ fs = first.fs

\* The output file is a directory.
C20_WitnessDirectory ==
    /\ pc = "exit"
    /\ exit_code = 1
    /\ StagesSucceeded
    /\ error = "IsADirectoryError"
    /\ out_file = <<P_d>>

\* The report has replaced the text of an existing write-only file, which
\* keeps its mode.
C20_WitnessRewrite ==
    /\ pc = "exit"
    /\ exit_code = 0
    /\ out_file = <<F_a>>
    /\ Stat(first.fs, F_a) = Node("file", LogDataOf[F_a], "wo")
    /\ Stat(fs, F_a) = Node("file", summary, "wo")
    /\ summary # LogDataOf[F_a]

\* The output file is a special entry: the run has ended with code zero,
\* or on OSError.
C20_WitnessSpecial ==
    /\ pc = "exit"
    /\ StagesSucceeded
    /\ out_file = <<F_s>>
    /\ Stat(first.fs, F_s).kind = "special"
    /\ exit_code = 0

C20_WitnessSpecialError ==
    /\ pc = "exit"
    /\ StagesSucceeded
    /\ out_file = <<F_s>>
    /\ Stat(first.fs, F_s).kind = "special"
    /\ error = "OSError"
    /\ exit_code = 1

\* Nothing of the file system has been looked at or opened.
NoFileTouched ==
    /\ seen = {}
    /\ files = <<>>
    /\ paths = <<>>
    /\ path_no = 0
    /\ opened = {}
    /\ read_no = 0
    /\ lines = <<>>

\* C21: the path "-" is rejected: 'stdin is not supported' is reported and
\* the command ends with a non-zero exit code, no file resolved or opened,
\* no analysis call issued and no output file written.
C21_StdinRejected ==
    path = P_dash =>
        /\ pc \in {"analyze", "exit"}
        /\ NoFileTouched
        /\ NothingParsedOrAnalyzed
        /\ stdout = <<>>
        /\ fs = first.fs
        /\ pc = "exit" =>
               /\ stderr = <<Echo("Error: stdin is not supported.", <<>>)>>
               /\ exit_code # 0
               /\ exit_code # -1

\* The command has ended on the path "-", an output file being asked for.
C21_Witness ==
    /\ path = P_dash
    /\ pc = "exit"
    /\ exit_code = 1
    /\ out_file = <<O_out>>
    /\ stderr # <<>>

(***************************************************************************)
(* Further properties of chunk_logs (SpecChunk).                           *)
(***************************************************************************)
\* The for loop of chunk_logs takes its next entry in this step.
TakesEntry == pc = "chunk_logs" /\ entry_no' = entry_no + 1

\* The step closes the running chunk.
ClosesChunk == Len(chunks') = Len(chunks) + 1

\* C25: the running chunk is closed before an entry exactly when it is
\* non-empty and its cost plus the entry's cost is greater than max_tokens,
\* the entry then starting a new chunk at its own cost; an entry that
\* brings the cost to exactly max_tokens stays in the running chunk; and
\* of two consecutive chunks returned, the cost of the earlier plus the cost
\* of the first entry of the later exceeds max_tokens.
C25_ClosesExactlyOnOverflow ==
    /\ [](pc = "chunk_logs" => tokens = ChunkCost(current))
    /\ [][TakesEntry =>
            LET e == entries[entry_no + 1]
                cost == estimate_tokens(e.raw)
                over == ChunkCost(current) + cost > max_tokens
            IN  /\ ClosesChunk <=> (current # <<>> /\ over)
                /\ ClosesChunk =>
                       /\ chunks' = Append(chunks, current)
                       /\ current' = <<e>>
                       /\ tokens' = cost
                /\ ~ClosesChunk =>
                       /\ chunks' = chunks
                       /\ current' = Append(current, e)
                       /\ tokens' = tokens + cost]_vars
    /\ [](pc = "chunked" =>
            \A j \in 1..(Len(chunks) - 1) :
                ChunkCost(chunks[j]) + estimate_tokens(chunks[j + 1][1].raw)
                    > max_tokens)

\* A chunk of two entries costs exactly max_tokens and another chunk
\* follows it.
C25_Witness ==
    /\ pc = "chunked"
    /\ max_tokens > 1
    /\ \E j \in 1..(Len(chunks) - 1) :
           /\ Len(chunks[j]) >= 2
           /\ ChunkCost(chunks[j]) = max_tokens

\* C26: a returned chunk of two or more entries costs at most max_tokens,
\* and a returned chunk that costs more than max_tokens is one entry whose
\* own cost is more than max_tokens.
C26_OverCeilingOnlyAsSingleton ==
    pc = "chunked" =>
        \A j \in 1..Len(chunks) :
            /\ Len(chunks[j]) >= 2 => ChunkCost(chunks[j]) <= max_tokens
            /\ ChunkCost(chunks[j]) > max_tokens =>
                   /\ Len(chunks[j]) = 1
                   /\ estimate_tokens(chunks[j][1].raw) > max_tokens

\* A chunk of one entry over the ceiling stands next to a chunk of two
\* entries within it.
C26_Witness ==
    /\ pc = "chunked"
    /\ max_tokens >= 2
    /\ \E j \in 1..Len(chunks) :
           Len(chunks[j]) = 1 /\ ChunkCost(chunks[j]) > max_tokens
    /\ \E j \in 1..Len(chunks) :
           Len(chunks[j]) = 2 /\ ChunkCost(chunks[j]) <= max_tokens

(***************************************************************************)
(* The analysis calls of analyze (SpecCli).                                *)
(***************************************************************************)
\* The prompts have been formatted.
PromptsFormatted ==
    pc \in {"formatted", "llm", "llm_call", "aggregate_responses",
            "aggregated"} \/ (pc = "exit" /\ chunks # <<>>)

\* The number of analyses made so far: calls of llm.analyze or, in the
\* mock mode, canned substitutions.
Analyses == IF mock THEN Len(responses) ELSE Len(calls)

\* C22: one prompt is formatted per chunk, in chunk order; the i-th
\* analysis call carries the prompt of the i-th chunk and there are never
\* more calls than chunks; a call is issued only when every earlier call
\* has returned; and a run that exits with code zero has made as many
\* analyses as there are chunks.
C22_CallsOneAtATimeInChunkOrder ==
    /\ [](/\ PromptsFormatted =>
                prompts = [i \in 1..Len(chunks) |-> format_prompt(chunks[i])]
          /\ ~PromptsFormatted => prompts = <<>>
          /\ Len(calls) <= Len(chunks)
          /\ \A i \in 1..Len(calls) : calls[i] = format_prompt(chunks[i])
          /\ exit_code = 0 =>
                /\ Analyses = Len(chunks)
                /\ Len(responses) = Len(chunks))
    /\ [][calls' # calls =>
            /\ ~mock
            /\ Len(responses) = Len(calls)
            /\ Len(calls') = Len(calls) + 1
            /\ SubSeq(calls', 1, Len(calls)) = calls
            /\ pc' = "llm_call"]_vars
    /\ [][(pc = "llm_call" /\ pc' = "llm") =>
            /\ calls' = calls
            /\ Len(responses') = Len(calls)]_vars

\* A run of several chunks has ended with one call made per chunk.
C22_Witness ==
    /\ pc = "exit"
    /\ exit_code = 0
    /\ ~mock
    /\ Len(chunks) >= 2
    /\ Len(calls) = Len(chunks)

\* A mock run of two chunks has ended with no call of llm.analyze.
C22_WitnessMock ==
    /\ pc = "exit"
    /\ exit_code = 0
    /\ mock
    /\ Len(chunks) >= 2
    /\ calls = <<>>

\* The input fits in a single chunk.
FitsOneChunk == entries # <<>> /\ ChunkCost(entries) <= max_tokens

\* C23: every response is appended while the call for the chunk at its
\* position is outstanding (or is the canned text in the mock mode); on
\* a run that exits with code zero the report is aggregate_responses of
\* the responses and is what the output file or standard output holds; and
\* when the entries fit in one chunk there is one chunk, one prompt, one
\* analysis and the report is the single response.
C23_ReportAggregatesResponses ==
    /\ [][responses' # responses =>
            IF mock'
            THEN /\ responses = <<>>
                 /\ responses' = [i \in 1..Len(chunks) |-> MOCK_RESPONSE]
            ELSE /\ Len(responses') = Len(responses) + 1
                 /\ SubSeq(responses', 1, Len(responses)) = responses
                 /\ Len(calls) = Len(responses')
                 /\ calls[Len(calls)] = format_prompt(chunks[Len(responses')])
         ]_vars
    /\ [](exit_code = 0 =>
            /\ Len(responses) = Len(chunks)
            /\ summary = aggregate_responses(responses)
            /\ ReportWritten
            /\ FitsOneChunk =>
                   /\ chunks = <<entries>>
                   /\ prompts = <<format_prompt(entries)>>
                   /\ Analyses = 1
                   /\ summary = responses[1])
    /\ [](pc = "chunked" /\ FitsOneChunk => Len(chunks) = 1)

\* A run of two chunks has ended with two different responses joined in the
\* report.
C23_Witness ==
    /\ pc = "exit"
    /\ exit_code = 0
    /\ ~mock
    /\ Len(responses) = 2
    /\ responses[1] # responses[2]
    /\ summary = responses[1] \o SEPARATOR \o responses[2]

\* A run of one chunk of two entries has ended with the single response as
\* its report.
C23_WitnessSingle ==
    /\ pc = "exit"
    /\ exit_code = 0
    /\ ~mock
    /\ FitsOneChunk
    /\ Len(entries) = 2
    /\ Len(calls) = 1
    /\ summary = responses[1]
    /\ summary # <<>>

\* An analysis call has raised.
LlmRaised == error = "LLMError"

\* No report is in the output file or on standard output.
NoReport ==
    /\ summary = <<>>
    /\ \A i \in 1..Len(stdout) : stdout[i].text # ""
    /\ fs = first.fs

\* C24: the call for a prompt is issued at most once, so there is never
\* more than one call beyond the responses received; and when a call
\* raises, analyze ends with that error, with no further call, the
\* responses, standard error and the file system as they were, and no
\* report in the output file or on standard output.
C24_NoRetryNoMasking ==
    /\ [](/\ Len(calls) <= Len(responses) + 1
          /\ Len(calls) <= Len(prompts)
          /\ \A i \in 1..Len(calls) : calls[i] = prompts[i])
    /\ [](LlmRaised =>
            /\ pc = "exit"
            /\ exit_code = 1
            /\ Len(calls) = Len(responses) + 1
            /\ stderr = <<>>
            /\ NoReport)
    /\ [][LlmRaised' /\ ~LlmRaised =>
            /\ pc = "llm_call"
            /\ calls' = calls
            /\ responses' = responses
            /\ fs' = fs
            /\ stdout' = stdout]_vars
    /\ [][LlmRaised => UNCHANGED vars]_vars

\* The first call of a run of several chunks has raised: the prompt of
\* the second chunk was never sent, and the output file was not created.
C24_Witness ==
    /\ LlmRaised
    /\ pc = "exit"
    /\ Len(prompts) >= 2
    /\ Len(calls) = 1
    /\ responses = <<>>
    /\ truthy(out_file)
    /\ open_w_outcomes(fs, out_file[1]) = {""}

(***************************************************************************)
(* The no-matching-files condition of analyze (SpecCli).                   *)
(***************************************************************************)
\* analyze has ended because the resolver returned no file.
NoFilesMatched == pc = "exit" /\ error = "" /\ path # P_dash /\ paths = <<>>

\* C27: when the resolver returns no file, analyze reports 'No log files
\* matched' with the path and exits with code 1, and standard error holds
\* no other text: the exit is not reported as an error reading a log file.
C27_NoMatchReportedOnce ==
    NoFilesMatched =>
        /\ exit_code = 1
        /\ stderr = <<Echo("No log files matched: ", path)>>
        /\ stdout = <<>>

(***************************************************************************)
(* The --output option of analyze (SpecOutput).                            *)
(***************************************************************************)
\* The second run has ended.
SecondRunEnded == pc = "exit" /\ first.obs # <<>>

\* The analysis collaborator behaved in the second run as in the first:
\* the same mode, the same answers and the same failure.
SameCollaborator ==
    /\ mock = first.obs[1].mock
    /\ responses = first.obs[1].responses
    /\ (error = "LLMError") = (first.obs[1].error = "LLMError")

\* C28: two runs of analyze that differ only in the value of --output,
\* with the collaborator answering alike, resolve the same
\* paths, read the same lines, build the same entries, chunks and prompts,
\* issue the same calls, leave the same report in the same file or on
\* standard output, the same texts on standard error and the same exit
\* code.
C28_OutputHasNoInfluence ==
    /\ SecondRunEnded /\ SameCollaborator => Observed = first.obs[1]
    /\ first.obs # <<>> =>
           /\ Len(paths) > 0 => paths = first.obs[1].paths
           /\ pc \in {"parsed", "chunk_logs"} =>
                  entries = first.obs[1].entries
           /\ pc = "formatted" => prompts = first.obs[1].prompts
           /\ ~mock /\ Len(calls) <= Len(first.obs[1].calls)
                  => calls = SubSeq(first.obs[1].calls, 1, Len(calls))

\* Two runs with --output text and --output json have each made two calls
\* and written the same report to the output file.
C28_Witness ==
    /\ SecondRunEnded
    /\ SameCollaborator
    /\ {output, first.output} = {<<"t", "e", "x", "t">>, <<"j", "s", "o", "n">>}
    /\ exit_code = 0
    /\ ~mock
    /\ Len(calls) >= 2
    /\ truthy(out_file)
    /\ Stat(fs, out_file[1]).data = summary
    /\ summary # <<>>

\* Two runs with different --output values have each echoed the same
\* report to standard output.
C28_WitnessEcho ==
    /\ SecondRunEnded
    /\ SameCollaborator
    /\ output # first.output
    /\ exit_code = 0
    /\ ~truthy(out_file)
    /\ summary # <<>>
    /\ stdout[Len(stdout)] = Echo("", summary)

(***************************************************************************)
(* The session protocol of LLMClient.analyze (SpecLlm).                    *)
(***************************************************************************)
\* The calls of one analysis, in the order of _analyze_async.
Protocol ==
    <<Call("start", <<>>), Call("create_session", <<>>), Call("on", <<>>),
      Call("send", prompt), Call("destroy", <<>>), Call("stop", <<>>)>>

IsPrefix(a, b) == Len(a) <= Len(b) /\ a = SubSeq(b, 1, Len(a))

\* A session.idle event has been received.
IdleReceived == \E i \in 1..Len(events) : events[i].type = "session.idle"

RECURSIVE LastMessage(_)
\* The content of the last assistant.message event of evs, "" for none.
LastMessage(evs) ==
    IF evs = <<>> THEN <<>>
    ELSE IF evs[Len(evs)].type = "assistant.message"
         THEN evs[Len(evs)].content
         ELSE LastMessage(SubSeq(evs, 1, Len(evs) - 1))

\* C29: the calls made to the client and the session are, in order, start,
\* create_session, on, send with the prompt, destroy and stop; destroy is
\* called only after a session.idle event was received; while no
\* session.idle event has been received the coroutine stays in its wait;
\* and analyze returns only after all six calls and a session.idle event,
\* with the content of the last assistant.message event received, or the
\* empty string when there was none.
C29_ProtocolOrderAndResult ==
    /\ [](IsPrefix(ops, Protocol))
    /\ [](Len(ops) >= 5 => IdleReceived)
    /\ []((pc = "returned") = (ret # <<>>))
    /\ [](ret # <<>> =>
            /\ ops = Protocol
            /\ IdleReceived
            /\ ret = <<LastMessage(events)>>)
    /\ [][pc = "done.wait" /\ ~IdleReceived => pc' = "done.wait"]_vars

\* analyze has returned the second of two messages received before
\* session.idle.
C29_Witness ==
    /\ pc = "returned"
    /\ prompt = <<"p">>
    /\ events = <<Event("assistant.message", A_lines),
                  Event("assistant.message", A_rule),
                  Event("session.idle", <<>>)>>
    /\ ret = <<A_rule>>

\* analyze has returned the empty string: session.idle came with no
\* assistant.message.
C29_WitnessEmpty ==
    /\ pc = "returned"
    /\ events = <<Event("assistant.message_delta", A_lines),
                  Event("session.idle", <<>>)>>
    /\ ret = <<(<<>>)>>

\* The coroutine waits with messages received and no session.idle.
C29_WitnessWaiting ==
    /\ pc = "done.wait"
    /\ Len(events) = MaxEvents
    /\ ~IdleReceived
    /\ result # <<>>

\* C30: when analyze has returned or raised, no client it started is left
\* unstopped and no session it created is left undestroyed.
C30_ReleasedOnEveryPath ==
    pc \in {"returned", "raised"} =>
        /\ client # "started"
        /\ session # "live"

====
